---- MODULE Spec2Model ----
(***************************************************************************)
(* Model of the schedule optimisation engine (class SmartScheduler of      *)
(* utils/smartScheduler, src/unnamed/part_000).                            *)
(*                                                                         *)
(* JavaScript strings are modelled as sequences of one-character strings,  *)
(* so that includes(), replace(), the time regular expression, padStart()  *)
(* and split() are computed on characters the way the code computes them.  *)
(* Arrays are sequences.  A value that is undefined in the code is the     *)
(* empty string (both are falsy) or, for a number, 0 (falsy as well).      *)
(***************************************************************************)
EXTENDS Integers, Sequences, FiniteSets, TLC

VARIABLES
    preferences,       \* SmartScheduler.preferences (this.preferences)
    sections,          \* argument of analyzeSections / filterPreferredDaySections / hasTimeConflicts
    coursesSections,   \* argument of findOptimalCombinations
    maxCombinations,   \* argument of findOptimalCombinations: <<n>>, or <<>> when omitted
    op,                \* the operation that has returned, "none" before any call
    combinations,      \* local `combinations` of findOptimalCombinations
    result,            \* the value returned by the operation
    url,               \* argument of safeFetch
    attempt,           \* loop variable `attempt` of safeFetch
    pc,                \* where the call of safeFetch stands
    response,          \* local `response` of safeFetch
    log,               \* what the call of safeFetch has done so far: fetches, failures, waits
    settled            \* how the promise safeFetch returned has settled

\* the state of the scheduler and the state of a call of safeFetch
schedulerVars ==
    <<preferences, sections, coursesSections, maxCombinations, op, combinations, result>>

fetchVars == <<url, attempt, pc, response, log, settled>>

vars == <<schedulerVars, fetchVars>>

NoResponse == [ok |-> FALSE, status |-> 0]

NoError == [kind |-> "none", status |-> 0, url |-> "", responseBody |-> "", attempt |-> 0]

\* the promise safeFetch returned is pending
Pending == [kind |-> "pending", response |-> NoResponse, error |-> NoError]

\* safeFetch is not called
NoFetch ==
    /\ url = ""
    /\ attempt = 0
    /\ pc = "idle"
    /\ response = NoResponse
    /\ log = <<>>
    /\ settled = Pending

----------------------------------------------------------------------------
(* Strings                                                                 *)

Digits == <<"0", "1", "2", "3", "4", "5", "6", "7", "8", "9">>

IsDigit(c) == \E i \in 1..10 : Digits[i] = c

DigitVal(c) == (CHOOSE i \in 1..10 : Digits[i] = c) - 1

\* The characters /\s/ matches among those the inputs use.
WhiteSpace == {" ", "\t"}

\* String.prototype.includes
Includes(s, pat) ==
    \E i \in 0..(Len(s) - Len(pat)) : SubSeq(s, i + 1, i + Len(pat)) = pat

\* toUpperCase on the letters of AM / PM
UpperChar(c) ==
    CASE c = "a" -> "A"
      [] c = "p" -> "P"
      [] c = "m" -> "M"
      [] OTHER   -> c

ToUpperCase(s) == [i \in 1..Len(s) |-> UpperChar(s[i])]

RECURSIVE ParseDigits(_)
\* parseInt / Number on a string of decimal digits
ParseDigits(s) ==
    IF Len(s) = 0 THEN 0
    ELSE 10 * ParseDigits(SubSeq(s, 1, Len(s) - 1)) + DigitVal(s[Len(s)])

RECURSIVE NumberToString(_)
\* Number.prototype.toString of a natural number
NumberToString(n) ==
    IF n < 10 THEN <<Digits[n + 1]>>
    ELSE NumberToString(n \div 10) \o <<Digits[(n % 10) + 1]>>

\* padStart(2, '0')
PadStart2(s) == IF Len(s) < 2 THEN <<"0">> \o s ELSE s

\* position of the first sep in s, 0 when there is none
IndexOf(s, sep) ==
    IF \E i \in 1..Len(s) : s[i] = sep
    THEN CHOOSE i \in 1..Len(s) : s[i] = sep /\ \A j \in 1..(i - 1) : s[j] # sep
    ELSE 0

RECURSIVE Split(_, _)
\* String.prototype.split on a one-character separator
Split(s, sep) ==
    LET i == IndexOf(s, sep)
    IN IF i = 0 THEN <<s>>
       ELSE <<SubSeq(s, 1, i - 1)>> \o Split(SubSeq(s, i + 1, Len(s)), sep)

RECURSIVE RemoveDuplicates(_)
\* [...new Set(days)]: first occurrences, in order
RemoveDuplicates(s) ==
    IF Len(s) = 0 THEN <<>>
    ELSE LET front == RemoveDuplicates(SubSeq(s, 1, Len(s) - 1))
             last  == s[Len(s)]
         IN IF \E i \in 1..Len(front) : front[i] = last
            THEN front ELSE Append(front, last)

\* the set of elements of a sequence
Range(s) == {s[i] : i \in 1..Len(s)}

TBA == <<"T", "B", "A">>

----------------------------------------------------------------------------
(* Day/Time Parser                                                         *)

\* dayMap, in the insertion order Object.entries enumerates
dayMap == <<
    <<<<"M">>, "M">>, <<<<"M", "o">>, "M">>, <<<<"M", "o", "n">>, "M">>,
    <<<<"M", "o", "n", "d", "a", "y">>, "M">>,
    <<<<"T">>, "T">>, <<<<"T", "u">>, "T">>, <<<<"T", "u", "e">>, "T">>,
    <<<<"T", "u", "e", "s", "d", "a", "y">>, "T">>,
    <<<<"W">>, "W">>, <<<<"W", "e">>, "W">>, <<<<"W", "e", "d">>, "W">>,
    <<<<"W", "e", "d", "n", "e", "s", "d", "a", "y">>, "W">>,
    <<<<"R">>, "R">>, <<<<"T", "h">>, "R">>, <<<<"T", "h", "u">>, "R">>,
    <<<<"T", "h", "u", "r", "s", "d", "a", "y">>, "R">>,
    <<<<"F">>, "F">>, <<<<"F", "r">>, "F">>, <<<<"F", "r", "i">>, "F">>,
    <<<<"F", "r", "i", "d", "a", "y">>, "F">>
>>

\* daysStr.replace(/[,\s]/g, '')
CleanStr(daysStr) == SelectSeq(daysStr, LAMBDA c : c # "," /\ c \notin WhiteSpace)

RECURSIVE ScanDayMap(_, _)
\* the for-of loop over Object.entries(dayMap), entries 1..n
ScanDayMap(cleanStr, n) ==
    IF n = 0 THEN <<>>
    ELSE LET before == ScanDayMap(cleanStr, n - 1)
         IN IF Includes(cleanStr, dayMap[n][1])
            THEN Append(before, dayMap[n][2]) ELSE before

\* a faulty variant: the "MWF" rule is tried before the "TR" rule
parseDaysStringMWFFirst(daysStr) ==
    IF Len(daysStr) = 0 \/ daysStr = TBA THEN <<>>
    ELSE LET Days(cleanStr) ==
                 IF Includes(cleanStr, <<"M", "W", "F">>) THEN <<"M", "W", "F">>
                 ELSE IF Includes(cleanStr, <<"T", "R">>) THEN <<"T", "R">>
                 ELSE ScanDayMap(cleanStr, Len(dayMap))
         IN RemoveDuplicates(Days(CleanStr(daysStr)))

parseDaysString(daysStr) ==
    IF Len(daysStr) = 0 \/ daysStr = TBA THEN <<>>
    ELSE LET cleanStr == CleanStr(daysStr)
             days == IF Includes(cleanStr, <<"T", "R">>) THEN <<"T", "R">>
                     ELSE IF Includes(cleanStr, <<"M", "W", "F">>) THEN <<"M", "W", "F">>
                     ELSE ScanDayMap(cleanStr, Len(dayMap))
         IN RemoveDuplicates(days)

\* a faulty variant: PM adds 12 hours to 12 as well
convertTo24HourNoNoon(hour, minute, amPm) ==
    LET hour24 == IF Len(amPm) > 0
                  THEN IF ToUpperCase(amPm) = <<"P", "M">> THEN hour + 12
                       ELSE IF ToUpperCase(amPm) = <<"A", "M">> /\ hour = 12 THEN 0
                       ELSE hour
                  ELSE hour
    IN PadStart2(NumberToString(hour24)) \o <<":">> \o PadStart2(NumberToString(minute))

convertTo24Hour(hour, minute, amPm) ==
    LET hour24 == IF Len(amPm) > 0
                  THEN IF ToUpperCase(amPm) = <<"P", "M">> /\ hour # 12 THEN hour + 12
                       ELSE IF ToUpperCase(amPm) = <<"A", "M">> /\ hour = 12 THEN 0
                       ELSE hour
                  ELSE hour
    IN PadStart2(NumberToString(hour24)) \o <<":">> \o PadStart2(NumberToString(minute))

timeToMinutes(timeStr) ==
    LET parts == Split(timeStr, ":")
    IN ParseDigits(parts[1]) * 60 + ParseDigits(parts[2])

RECURSIVE SkipSpaces(_, _)
\* the position after a greedy \s* that starts at q
SkipSpaces(s, q) ==
    IF q <= Len(s) /\ s[q] \in WhiteSpace THEN SkipSpaces(s, q + 1) ELSE q

DigitsAt(s, q, n) == q + n - 1 <= Len(s) /\ \A i \in q..(q + n - 1) : IsDigit(s[i])

CharAt(s, q, c) == q <= Len(s) /\ s[q] = c

\* (AM|PM)? under the i flag at q: the text matched, empty when the group takes no part
AmPmAt(s, q) ==
    IF q + 1 <= Len(s) /\ ToUpperCase(SubSeq(s, q, q + 1)) \in {<<"A", "M">>, <<"P", "M">>}
    THEN SubSeq(s, q, q + 1) ELSE <<>>

NoMatch == <<>>

\* (\d{1,2}):(\d{2})\s*(AM|PM)? at q, the hour taking hl digits
ClockAt(s, q, hl) ==
    IF DigitsAt(s, q, hl) /\ CharAt(s, q + hl, ":") /\ DigitsAt(s, q + hl + 1, 2)
    THEN <<SubSeq(s, q, q + hl - 1), SubSeq(s, q + hl + 1, q + hl + 2),
           AmPmAt(s, SkipSpaces(s, q + hl + 3))>>
    ELSE NoMatch

\* the second clock of the range at q; \d{1,2} is greedy
EndClockAt(s, q) ==
    LET Greedy(two) == IF two # NoMatch THEN two ELSE ClockAt(s, q, 1)
    IN Greedy(ClockAt(s, q, 2))

\* \s*(AM|PM)?\s*-\s* and the second clock, from the position q after the first
\* minutes.  When AM/PM stands at q3 the dash can only follow it (the character at
\* q3 is a letter), so giving the optional group back never yields a match.
RangeTailAt(s, q) ==
    LET Groups(amPm, end) == IF end # NoMatch THEN <<amPm>> \o end ELSE NoMatch
        AfterDash(amPm, dash) ==
            Groups(amPm, IF CharAt(s, dash, "-") THEN EndClockAt(s, SkipSpaces(s, dash + 1))
                         ELSE NoMatch)
        AfterAmPm(q3, amPm) ==
            AfterDash(amPm, SkipSpaces(s, IF Len(amPm) > 0 THEN q3 + 2 ELSE q3))
        AfterSpaces(q3) == AfterAmPm(q3, AmPmAt(s, q3))
    IN AfterSpaces(SkipSpaces(s, q))

\* timeRegex anchored at p, the first hour taking hl digits
RangeAt(s, p, hl) ==
    LET Groups(tail) ==
            IF tail # NoMatch
            THEN <<SubSeq(s, p, p + hl - 1), SubSeq(s, p + hl + 1, p + hl + 2)>> \o tail
            ELSE NoMatch
    IN Groups(IF DigitsAt(s, p, hl) /\ CharAt(s, p + hl, ":") /\ DigitsAt(s, p + hl + 1, 2)
              THEN RangeTailAt(s, p + hl + 3) ELSE NoMatch)

\* timeRegex anchored at p; \d{1,2} is greedy
MatchAt(s, p) ==
    LET Greedy(two) == IF two # NoMatch THEN two ELSE RangeAt(s, p, 1)
    IN Greedy(RangeAt(s, p, 2))

RECURSIVE MatchFrom(_, _)
\* the groups of the first match that starts at p or later
MatchFrom(s, p) ==
    LET Leftmost(m) == IF m # NoMatch THEN m ELSE MatchFrom(s, p + 1)
    IN IF p > Len(s) THEN NoMatch ELSE Leftmost(MatchAt(s, p))

\* timeStr.match(timeRegex): the groups of the leftmost match,
\* <<startHour, startMin, startAmPm, endHour, endMin, endAmPm>>
TimeRegexMatch(s) == MatchFrom(s, 1)

Midnight == <<"0", "0", ":", "0", "0">>

MinutesPerDay == 24 * 60

\* a faulty variant: text that is no range runs through the overnight adjustment
\* and comes out lasting a whole day
parseTimeStringWrapped(timeStr) ==
    LET Unparsed == [startTime |-> Midnight, endTime |-> Midnight, duration |-> MinutesPerDay]
        Slot(startTime24, endTime24, duration) ==
            [startTime |-> startTime24, endTime |-> endTime24,
             duration |-> IF duration > 0 THEN duration ELSE duration + MinutesPerDay]
        FromClocks(startTime24, endTime24) ==
            Slot(startTime24, endTime24,
                 timeToMinutes(endTime24) - timeToMinutes(startTime24))
        FromMatch(match) ==
            IF match = NoMatch THEN Unparsed
            ELSE FromClocks(
                    convertTo24Hour(ParseDigits(match[1]), ParseDigits(match[2]), match[3]),
                    convertTo24Hour(ParseDigits(match[4]), ParseDigits(match[5]), match[6]))
    IN IF Len(timeStr) = 0 \/ timeStr = TBA THEN Unparsed
       ELSE FromMatch(TimeRegexMatch(timeStr))

parseTimeString(timeStr) ==
    LET Unparsed == [startTime |-> Midnight, endTime |-> Midnight, duration |-> 0]
        Slot(startTime24, endTime24, duration) ==
            [startTime |-> startTime24, endTime |-> endTime24,
             duration |-> IF duration > 0 THEN duration ELSE duration + MinutesPerDay]
        FromClocks(startTime24, endTime24) ==
            Slot(startTime24, endTime24,
                 timeToMinutes(endTime24) - timeToMinutes(startTime24))
        FromMatch(match) ==
            IF match = NoMatch THEN Unparsed
            ELSE FromClocks(
                    convertTo24Hour(ParseDigits(match[1]), ParseDigits(match[2]), match[3]),
                    convertTo24Hour(ParseDigits(match[4]), ParseDigits(match[5]), match[6]))
    IN IF Len(timeStr) = 0 \/ timeStr = TBA THEN Unparsed
       ELSE FromMatch(TimeRegexMatch(timeStr))

\* a string literal of the code, written out in characters
Txt(n) ==
    CASE n = "TR"          -> <<"T", "R">>
      [] n = "MWF"         -> <<"M", "W", "F">>
      [] n = "M W F"       -> <<"M", " ", "W", " ", "F">>
      [] n = "M"           -> <<"M">>
      [] n = "T"           -> <<"T">>
      [] n = "MW"          -> <<"M", "W">>
      [] n = "MTR"         -> <<"M", "T", "R">>
      [] n = "Thursday"    -> <<"T", "h", "u", "r", "s", "d", "a", "y">>
      [] n = "TBA"         -> TBA
      [] n = ""            -> <<>>
      [] n = "09:00-09:50" -> <<"0", "9", ":", "0", "0", "-", "0", "9", ":", "5", "0">>
      [] n = "09:30-10:20" -> <<"0", "9", ":", "3", "0", "-", "1", "0", ":", "2", "0">>
      [] n = "09:50-10:40" -> <<"0", "9", ":", "5", "0", "-", "1", "0", ":", "4", "0">>
      [] n = "10:00-11:20" -> <<"1", "0", ":", "0", "0", "-", "1", "1", ":", "2", "0">>
      [] n = "2:00PM-3:50PM" ->
            <<"2", ":", "0", "0", "P", "M", "-", "3", ":", "5", "0", "P", "M">>
      [] n = "11:00PM-12:30AM" ->
            <<"1", "1", ":", "0", "0", "P", "M", "-", "1", "2", ":", "3", "0", "A", "M">>
      [] n = "12:10 pm - 1:00 pm" ->
            <<"1", "2", ":", "1", "0", " ", "p", "m", " ", "-", " ",
              "1", ":", "0", "0", " ", "p", "m">>
      [] n = "noon"        -> <<"n", "o", "o", "n">>
      [] n = "08:00"       -> <<"0", "8", ":", "0", "0">>
      [] n = "18:00"       -> <<"1", "8", ":", "0", "0">>
      [] n = "12:00-13:00" -> <<"1", "2", ":", "0", "0", "-", "1", "3", ":", "0", "0">>
      [] n = "12:30-13:20" -> <<"1", "2", ":", "3", "0", "-", "1", "3", ":", "2", "0">>
      [] n = "17:30-18:20" -> <<"1", "7", ":", "3", "0", "-", "1", "8", ":", "2", "0">>
      [] n = "07:30-08:20" -> <<"0", "7", ":", "3", "0", "-", "0", "8", ":", "2", "0">>
      [] n = "13:00-14:50" -> <<"1", "3", ":", "0", "0", "-", "1", "4", ":", "5", "0">>
      [] n = "F"           -> <<"F">>
      [] n = "W"           -> <<"W">>
      [] n = "MTWR"        -> <<"M", "T", "W", "R">>
      [] n = "M T W Th F"  -> <<"M", " ", "T", " ", "W", " ", "T", "h", " ", "F">>
      [] n = "M, Tu"       -> <<"M", ",", " ", "T", "u">>
      [] n = "16:00"       -> <<"1", "6", ":", "0", "0">>

TextNames ==
    {"TR", "MWF", "M W F", "M", "T", "MW", "MTR", "Thursday", "TBA", "", "F", "W", "MTWR",
     "M T W Th F", "M, Tu",
     "09:00-09:50", "09:30-10:20", "09:50-10:40", "10:00-11:20", "2:00PM-3:50PM",
     "11:00PM-12:30AM", "12:10 pm - 1:00 pm", "noon", "12:30-13:20", "17:30-18:20",
     "07:30-08:20", "13:00-14:50"}

KnownTexts == {Txt(n) : n \in TextNames}

\* Evaluation caches: the parsers tabulated on the texts the inputs are built from.
ParsedDays == [d \in KnownTexts |-> parseDaysString(d)]

ParsedTimes == [x \in KnownTexts |-> parseTimeString(x)]

\* this.parseDaysString(schedule.days), read from the cache when the text is tabulated
DaysOf(daysStr) ==
    IF daysStr \in KnownTexts THEN ParsedDays[daysStr] ELSE parseDaysString(daysStr)

\* this.parseTimeString(schedule.time), read from the cache when the text is tabulated
TimeOf(timeStr) ==
    IF timeStr \in KnownTexts THEN ParsedTimes[timeStr] ELSE parseTimeString(timeStr)

----------------------------------------------------------------------------
(* Generic array helpers                                                   *)

\* Array.prototype.sort (stable since ES2019) under a comparator that is a strict
\* weak order; Precedes(a, b) is compare(a, b) < 0.  The element at index i comes
\* after the elements that precede it and after the earlier elements it ties with.
StableSort(s, Precedes(_, _)) ==
    LET before(i) == {j \in 1..Len(s) :
                         Precedes(s[j], s[i]) \/ (j < i /\ ~Precedes(s[i], s[j]))}
    IN [k \in 1..Len(s) |-> s[CHOOSE i \in 1..Len(s) : Cardinality(before(i)) = k - 1]]

RECURSIVE SumSeq(_)
SumSeq(s) == IF Len(s) = 0 THEN 0 ELSE s[1] + SumSeq(Tail(s))

RECURSIVE Flatten(_)
\* concatenation of an array of arrays (flatMap, push(...items))
Flatten(ss) == IF Len(ss) = 0 THEN <<>> ELSE ss[1] \o Flatten(Tail(ss))

\* a faulty variant: Math.max written where Math.min is meant
Min2AsMax(a, b) == IF a >= b THEN a ELSE b

\* Math.min
Min2(a, b) == IF a <= b THEN a ELSE b

\* Math.max
Max2(a, b) == IF a >= b THEN a ELSE b

\* UTF-16 code units of the characters clock strings are made of
CharCode(c) ==
    CASE IsDigit(c) -> 48 + DigitVal(c)
      [] c = ":"    -> 58
      [] c = "-"    -> 45
      [] c = " "    -> 32
      [] OTHER      -> 65

RECURSIVE StrLess(_, _)
\* a < b on strings: lexicographic on code units
StrLess(a, b) ==
    IF Len(b) = 0 THEN FALSE
    ELSE IF Len(a) = 0 THEN TRUE
    ELSE IF CharCode(a[1]) # CharCode(b[1]) THEN CharCode(a[1]) < CharCode(b[1])
    ELSE StrLess(Tail(a), Tail(b))

----------------------------------------------------------------------------
(* Section Analyzer                                                        *)

\* schedule.time && schedule.time !== 'TBA'
HasTime(schedule) == Len(schedule.time) > 0 /\ schedule.time # TBA

\* the TimeSlots one meeting pushes, one per parsed day
MeetingTimeSlots(schedule) ==
    LET Slots(days, t) ==
            [i \in 1..Len(days) |->
                [day |-> days[i], startTime |-> t.startTime,
                 endTime |-> t.endTime, duration |-> t.duration]]
    IN IF HasTime(schedule)
       THEN Slots(DaysOf(schedule.days), TimeOf(schedule.time))
       ELSE <<>>

\* a faulty variant: the non-preferred days are counted once per meeting, not once
\* per distinct day
analyzeSectionDaysPerMeeting(section) ==
    LET Analysis(daysArray, timeSlots, preferredDayCount, nonPreferredDayCount) ==
            [daysOfWeek |-> daysArray,
             matchesPreferredDays |-> nonPreferredDayCount = 0 /\ preferredDayCount > 0,
             preferredDayCount |-> preferredDayCount,
             nonPreferredDayCount |-> nonPreferredDayCount,
             timeSlots |-> timeSlots]
        Counted(allDays, timeSlots) ==
            Analysis(RemoveDuplicates(allDays), timeSlots,
                     Len(SelectSeq(RemoveDuplicates(allDays),
                                   LAMBDA day : day \in Range(preferences.preferredDays))),
                     Len(SelectSeq(allDays,
                                   LAMBDA day : day \notin Range(preferences.preferredDays))))
        Meetings(sched) ==
            Counted(Flatten([i \in 1..Len(sched) |-> DaysOf(sched[i].days)]),
                    Flatten([i \in 1..Len(sched) |-> MeetingTimeSlots(sched[i])]))
    IN Meetings(section.schedule)

\* a faulty variant: a section with no day at all counts as matching the preferred days
analyzeSectionDaysNoDayNeeded(section) ==
    LET Analysis(daysArray, timeSlots, preferredDayCount) ==
            [daysOfWeek |-> daysArray,
             matchesPreferredDays |-> Len(daysArray) - preferredDayCount = 0,
             preferredDayCount |-> preferredDayCount,
             nonPreferredDayCount |-> Len(daysArray) - preferredDayCount,
             timeSlots |-> timeSlots]
        Counted(daysArray, timeSlots) ==
            Analysis(daysArray, timeSlots,
                     Len(SelectSeq(daysArray,
                                   LAMBDA day : day \in Range(preferences.preferredDays))))
        Meetings(sched) ==
            Counted(RemoveDuplicates(Flatten([i \in 1..Len(sched) |-> DaysOf(sched[i].days)])),
                    Flatten([i \in 1..Len(sched) |-> MeetingTimeSlots(sched[i])]))
    IN Meetings(section.schedule)

analyzeSectionDays(section) ==
    LET Analysis(daysArray, timeSlots, preferredDayCount) ==
            [daysOfWeek |-> daysArray,
             matchesPreferredDays |->
                 Len(daysArray) - preferredDayCount = 0 /\ preferredDayCount > 0,
             preferredDayCount |-> preferredDayCount,
             nonPreferredDayCount |-> Len(daysArray) - preferredDayCount,
             timeSlots |-> timeSlots]
        Counted(daysArray, timeSlots) ==
            Analysis(daysArray, timeSlots,
                     Len(SelectSeq(daysArray,
                                   LAMBDA day : day \in Range(preferences.preferredDays))))
        Meetings(sched) ==
            Counted(RemoveDuplicates(Flatten([i \in 1..Len(sched) |-> DaysOf(sched[i].days)])),
                    Flatten([i \in 1..Len(sched) |-> MeetingTimeSlots(sched[i])]))
    IN Meetings(section.schedule)

----------------------------------------------------------------------------
(* Section Scorer                                                          *)

\* a faulty variant: a slot that only touches the avoided range counts as overlapping
timeSlotOverlapsTouching(slot, avoidedTimeSlot) ==
    LET parts      == Split(avoidedTimeSlot, "-")
        slotStart  == timeToMinutes(slot.startTime)
        slotEnd    == timeToMinutes(slot.endTime)
        avoidStart == timeToMinutes(parts[1])
        avoidEnd   == timeToMinutes(parts[2])
    IN slotStart <= avoidEnd /\ slotEnd >= avoidStart

timeSlotOverlaps(slot, avoidedTimeSlot) ==
    LET parts      == Split(avoidedTimeSlot, "-")
        slotStart  == timeToMinutes(slot.startTime)
        slotEnd    == timeToMinutes(slot.endTime)
        avoidStart == timeToMinutes(parts[1])
        avoidEnd   == timeToMinutes(parts[2])
    IN slotStart < avoidEnd /\ slotEnd > avoidStart

\* the body of the forEach of calculateTimeScore for one slot
SlotTimeScore(slot) ==
    LET Scored(hasEarliest, hasLatest, hasAvoid, startOk, endOk, conflictsWithAvoidedTime) ==
            [score |-> (IF startOk THEN 5 ELSE 0) + (IF endOk THEN 5 ELSE 0)
                       + (IF hasAvoid /\ ~conflictsWithAvoidedTime THEN 5 ELSE 0),
             reasons |-> (IF startOk THEN <<"Starts after">> ELSE <<>>)
                         \o (IF endOk THEN <<"Ends before">> ELSE <<>>),
             warnings |-> (IF hasEarliest /\ ~startOk
                           THEN <<"Starts before preferred time">> ELSE <<>>)
                          \o (IF hasLatest /\ ~endOk
                              THEN <<"Ends after preferred time">> ELSE <<>>)
                          \o (IF hasAvoid /\ conflictsWithAvoidedTime
                              THEN <<"Conflicts with avoided time slot">> ELSE <<>>)]
        Under(tp) ==
            Scored(Len(tp.earliestStart) > 0, Len(tp.latestEnd) > 0, tp.hasAvoidTimeSlots,
                   Len(tp.earliestStart) > 0 /\ ~StrLess(slot.startTime, tp.earliestStart),
                   Len(tp.latestEnd) > 0 /\ ~StrLess(tp.latestEnd, slot.endTime),
                   \E i \in 1..Len(tp.avoidTimeSlots) :
                       timeSlotOverlaps(slot, tp.avoidTimeSlots[i]))
    IN Under(preferences.timePreferences)

MaxTimeScore == 20

calculateTimeScore(timeSlots) ==
    LET Total(per) ==
            [score |-> Min2(MaxTimeScore, SumSeq([i \in 1..Len(per) |-> per[i].score])),
             reasons |-> Flatten([i \in 1..Len(per) |-> per[i].reasons]),
             warnings |-> Flatten([i \in 1..Len(per) |-> per[i].warnings])]
    IN Total([i \in 1..Len(timeSlots) |-> SlotTimeScore(timeSlots[i])])

\* Object.values(grouped): per day, in the order the days first appear, its slots
\* sorted by start time
groupTimeSlotsByDay(timeSlots) ==
    LET days == RemoveDuplicates([i \in 1..Len(timeSlots) |-> timeSlots[i].day])
    IN [d \in 1..Len(days) |->
           StableSort(SelectSeq(timeSlots, LAMBDA slot : slot.day = days[d]),
                      LAMBDA a, b : timeToMinutes(a.startTime) < timeToMinutes(b.startTime))]

DefaultMaxGap == 60

hasMinimalGaps(timeSlots) ==
    LET maxGap == IF preferences.gapPreferences.maxGapBetweenClasses # 0
                  THEN preferences.gapPreferences.maxGapBetweenClasses ELSE DefaultMaxGap
    IN Len(timeSlots) <= 1
       \/ \A i \in 1..(Len(timeSlots) - 1) :
              timeToMinutes(timeSlots[i + 1].startTime) - timeToMinutes(timeSlots[i].endTime)
                 <= maxGap

MaxCompactScore == 20

calculateCompactScore(dayAnalysis) ==
    LET Scored(dayCount, bonusDays) ==
            [score |-> Min2(MaxCompactScore,
                            (IF dayCount <= 3 THEN 15 ELSE IF dayCount = 4 THEN 8 ELSE 0)
                            + 5 * Len(bonusDays)),
             reasons |-> (IF dayCount <= 3 THEN <<"Compact">>
                          ELSE IF dayCount = 4 THEN <<"Moderate">> ELSE <<>>)
                         \o [i \in 1..Len(bonusDays) |-> "Consecutive classes on same day"]]
    IN Scored(Len(dayAnalysis.daysOfWeek),
              SelectSeq(groupTimeSlotsByDay(dayAnalysis.timeSlots),
                        LAMBDA slots : Len(slots) > 1 /\ hasMinimalGaps(slots)))

\* Math.min(100, Math.max(0, score))
ClampScore(score) == Min2(100, Max2(0, score))

calculateSectionScore(section, dayAnalysis) ==
    LET perfect == dayAnalysis.matchesPreferredDays
        good    == ~perfect /\ dayAnalysis.preferredDayCount >= 2
        one     == ~perfect /\ ~good /\ dayAnalysis.preferredDayCount = 1
        dayScore == IF perfect THEN 40 ELSE IF good THEN 25 ELSE IF one THEN 10 ELSE 0
        dayReasons == IF perfect THEN <<"Perfect match">>
                      ELSE IF good THEN <<"Good match">> ELSE <<>>
        dayWarnings == IF perfect THEN <<>>
                       ELSE IF good
                            THEN (IF dayAnalysis.nonPreferredDayCount > 0
                                  THEN <<"Also meets on non-preferred day(s)">> ELSE <<>>)
                       ELSE IF one THEN <<"Only meets on 1 preferred day">>
                       ELSE <<"Does not meet on any preferred days">>
        hasSeats == section.seats > 0
        waitlisted == ~hasSeats /\ section.waitlist > 0
        availScore == IF hasSeats THEN 10 ELSE IF waitlisted THEN 5 ELSE 0
        Scored(timeScore, compactScore) ==
            [score |-> ClampScore(dayScore + timeScore.score + compactScore.score + availScore),
             reasons |-> dayReasons \o timeScore.reasons \o compactScore.reasons
                         \o (IF hasSeats THEN <<"seats available">> ELSE <<>>),
             warnings |-> dayWarnings \o timeScore.warnings
                          \o (IF hasSeats THEN <<>>
                              ELSE IF waitlisted THEN <<"Waitlisted">>
                              ELSE <<"No seats available">>)]
    IN Scored(IF preferences.timePreferences.present
              THEN calculateTimeScore(dayAnalysis.timeSlots)
              ELSE [score |-> 0, reasons |-> <<>>, warnings |-> <<>>],
              IF preferences.prioritizeCompactSchedule
              THEN calculateCompactScore(dayAnalysis)
              ELSE [score |-> 0, reasons |-> <<>>])

\* the callback of sections.map in analyzeSections: { ...section, scheduleScore, dayAnalysis }
OptimizeSection(section) ==
    LET Optimized(dayAnalysis) ==
            [id |-> section.id, schedule |-> section.schedule, seats |-> section.seats,
             waitlist |-> section.waitlist,
             scheduleScore |-> calculateSectionScore(section, dayAnalysis),
             dayAnalysis |-> dayAnalysis]
    IN Optimized(analyzeSectionDays(section))

\* a faulty variant: a sort that leaves sections of equal score in reverse input order
analyzeSectionsTiesReversed(secs) ==
    StableSort([i \in 1..Len(secs) |-> OptimizeSection(secs[Len(secs) + 1 - i])],
               LAMBDA a, b : b.scheduleScore.score - a.scheduleScore.score < 0)

analyzeSections(secs) ==
    StableSort([i \in 1..Len(secs) |-> OptimizeSection(secs[i])],
               LAMBDA a, b : b.scheduleScore.score - a.scheduleScore.score < 0)

\* a faulty variant: only perfect matches pass the filter
KeepsSectionPerfectOnly(section) == section.dayAnalysis.matchesPreferredDays

\* the predicate of the filter of filterPreferredDaySections
KeepsSection(section) ==
    LET dayAnalysis == section.dayAnalysis
    IN \/ dayAnalysis.matchesPreferredDays
       \/ dayAnalysis.nonPreferredDayCount = 0
       \/ (dayAnalysis.preferredDayCount >= 2 /\ dayAnalysis.nonPreferredDayCount <= 1)

filterPreferredDaySections(secs) == SelectSeq(analyzeSections(secs), KeepsSection)

----------------------------------------------------------------------------
(* Conflict Detector                                                       *)

\* a faulty variant: a meeting without a time is not skipped
MeetingConflictSlotsAnyTime(schedule) ==
    LET Slots(days, t) ==
            [i \in 1..Len(days) |->
                [day |-> days[i], start |-> timeToMinutes(t.startTime),
                 end |-> timeToMinutes(t.endTime)]]
    IN Slots(DaysOf(schedule.days), TimeOf(schedule.time))

\* the { day, start, end } entries one meeting pushes onto timeSlots
MeetingConflictSlots(schedule) ==
    LET Slots(days, t) ==
            [i \in 1..Len(days) |->
                [day |-> days[i], start |-> timeToMinutes(t.startTime),
                 end |-> timeToMinutes(t.endTime)]]
    IN IF HasTime(schedule)
       THEN Slots(DaysOf(schedule.days), TimeOf(schedule.time))
       ELSE <<>>

\* the timeSlots array hasTimeConflicts builds
ConflictSlots(secs) ==
    Flatten([s \in 1..Len(secs) |->
        Flatten([m \in 1..Len(secs[s].schedule) |-> MeetingConflictSlots(secs[s].schedule[m])])])

\* a faulty variant: the second comparison of the overlap test is missing
SlotsOverlapOneSided(slot1, slot2) ==
    slot1.day = slot2.day /\ slot1.start < slot2.end

\* a faulty variant: slots that only touch count as overlapping
SlotsOverlapTouching(slot1, slot2) ==
    slot1.day = slot2.day /\ slot1.start <= slot2.end /\ slot1.end >= slot2.start

\* the test of the inner loop body
SlotsOverlap(slot1, slot2) ==
    slot1.day = slot2.day /\ slot1.start < slot2.end /\ slot1.end > slot2.start

hasTimeConflicts(secs) ==
    LET Overlapping(timeSlots) ==
            \E i \in 1..Len(timeSlots) : \E j \in (i + 1)..Len(timeSlots) :
                SlotsOverlap(timeSlots[i], timeSlots[j])
    IN Overlapping(ConflictSlots(secs))

----------------------------------------------------------------------------
(* Combination Generator                                                   *)

RECURSIVE generateUnpruned(_, _, _)
\* a faulty variant of `generate`: the conflict test sees the candidate alone, not
\* the partial combination it joins
generateUnpruned(cs, index, currentCombination) ==
    LET Pushed(candidate, next) ==
            IF ~hasTimeConflicts(<<candidate>>)
            THEN generateUnpruned(cs, index + 1, next) ELSE <<>>
    IN IF index = Len(cs) + 1 THEN <<currentCombination>>
       ELSE Flatten([c \in 1..Len(cs[index]) |->
                        Pushed(cs[index][c], Append(currentCombination, cs[index][c]))])

RECURSIVE generate(_, _, _)
\* the closure `generate` over coursesSections = cs: the combinations one call pushes.
\* index counts from 1; push and pop leave currentCombination as the call found it.
generate(cs, index, currentCombination) ==
    LET Pushed(next) ==
            IF ~hasTimeConflicts(next) THEN generate(cs, index + 1, next) ELSE <<>>
    IN IF index = Len(cs) + 1 THEN <<currentCombination>>
       ELSE Flatten([c \in 1..Len(cs[index]) |->
                        Pushed(Append(currentCombination, cs[index][c]))])

\* a faulty variant: one course yields its whole candidate list as one combination
generateScheduleCombinationsWhole(cs) ==
    IF Len(cs) = 0 THEN <<>>
    ELSE IF Len(cs) = 1 THEN <<cs[1]>>
    ELSE generate(cs, 1, <<>>)

generateScheduleCombinations(cs) ==
    IF Len(cs) = 0 THEN <<>>
    ELSE IF Len(cs) = 1 THEN [i \in 1..Len(cs[1]) |-> <<cs[1][i]>>]
    ELSE generate(cs, 1, <<>>)

----------------------------------------------------------------------------
(* Combination Evaluator                                                   *)
(* Hours and averages are exact fractions [num, den]; den = 0 stands for   *)
(* the NaN of a division 0 / 0.                                            *)

Frac(n, d) == [num |-> n, den |-> d]

FracLess(a, b) == a.num * b.den < b.num * a.den

MinutesPerHour == 60

RECURSIVE MaxSeq(_)
MaxSeq(s) == IF Len(s) = 1 THEN s[1] ELSE Max2(s[1], MaxSeq(Tail(s)))

RECURSIVE MinSeq(_)
MinSeq(s) == IF Len(s) = 1 THEN s[1] ELSE Min2(s[1], MinSeq(Tail(s)))

\* a faulty variant: every gap is counted, also one that is not positive
DayGapsUnfiltered(slots) ==
    [i \in 1..(Len(slots) - 1) |->
        timeToMinutes(slots[i + 1].startTime) - timeToMinutes(slots[i].endTime)]

\* the positive gaps between consecutive slots of one day
DayGaps(slots) ==
    SelectSeq([i \in 1..(Len(slots) - 1) |->
                  timeToMinutes(slots[i + 1].startTime) - timeToMinutes(slots[i].endTime)],
              LAMBDA gap : gap > 0)

calculateAverageGapTime(secs) ==
    LET Average(gaps) ==
            IF Len(gaps) > 0 THEN Frac(SumSeq(gaps), Len(gaps)) ELSE Frac(0, 1)
        Gaps(dayTimeSlots) ==
            Average(Flatten([d \in 1..Len(dayTimeSlots) |-> DayGaps(dayTimeSlots[d])]))
    IN Gaps(groupTimeSlotsByDay(
                Flatten([i \in 1..Len(secs) |-> secs[i].dayAnalysis.timeSlots])))

analyzeCompleteSchedule(secs) ==
    LET Analysis(slots, dayHours) ==
            [daysUsed |-> RemoveDuplicates(
                 Flatten([i \in 1..Len(secs) |-> secs[i].dayAnalysis.daysOfWeek])),
             totalHoursPerWeek |-> Frac(SumSeq([i \in 1..Len(slots) |-> slots[i].duration]),
                                        MinutesPerHour),
             longestDay |-> Frac(IF Len(dayHours) > 0 THEN MaxSeq(dayHours) ELSE 0,
                                 MinutesPerHour),
             shortestDay |-> Frac(IF Len(dayHours) > 0 THEN MinSeq(dayHours) ELSE 0,
                                  MinutesPerHour),
             averageGapTime |-> calculateAverageGapTime(secs),
             hasConflicts |-> hasTimeConflicts(secs)]
        \* Object.values(dailyHours), in minutes
        Daily(slots, slotDays) ==
            Analysis(slots,
                     [d \in 1..Len(slotDays) |->
                         SumSeq([i \in 1..Len(slots) |->
                                    IF slots[i].day = slotDays[d] THEN slots[i].duration
                                    ELSE 0])])
        Slots(slots) == Daily(slots, RemoveDuplicates([i \in 1..Len(slots) |-> slots[i].day]))
    IN Slots(Flatten([i \in 1..Len(secs) |-> secs[i].dayAnalysis.timeSlots]))

MaxTotalScore == 100

\* a faulty variant: the sum is returned without Math.min(100, ...)
calculateCombinationScoreUnclamped(secs, scheduleAnalysis) ==
    LET n == Len(secs)
        sum == SumSeq([i \in 1..n |-> secs[i].scheduleScore.score])
        preferredDaysUsed == Len(SelectSeq(scheduleAnalysis.daysUsed,
            LAMBDA day : day \in Range(preferences.preferredDays)))
        bonusScore == preferredDaysUsed * 5
                      + (IF Len(scheduleAnalysis.daysUsed) <= 3 THEN 15 ELSE 0)
                      + (IF ~scheduleAnalysis.hasConflicts THEN 10 ELSE 0)
    IN Frac(sum + bonusScore * n, n)

calculateCombinationScore(secs, scheduleAnalysis) ==
    LET n == Len(secs)
        sum == SumSeq([i \in 1..n |-> secs[i].scheduleScore.score])
        preferredDaysUsed == Len(SelectSeq(scheduleAnalysis.daysUsed,
            LAMBDA day : day \in Range(preferences.preferredDays)))
        bonusScore == preferredDaysUsed * 5
                      + (IF Len(scheduleAnalysis.daysUsed) <= 3 THEN 15 ELSE 0)
                      + (IF ~scheduleAnalysis.hasConflicts THEN 10 ELSE 0)
    IN \* Math.min(100, sum / n + bonusScore)
       Frac(Min2(MaxTotalScore * n, sum + bonusScore * n), n)

\* a faulty variant: the rule on the number of days is tried only when no used day
\* is non-preferred
generateRecommendationsChained(secs, scheduleAnalysis) ==
    LET nonPreferredDays == SelectSeq(scheduleAnalysis.daysUsed,
            LAMBDA day : day \notin Range(preferences.preferredDays))
        waitlistedSections == SelectSeq(secs,
            LAMBDA s : \E w \in 1..Len(s.scheduleScore.warnings) :
                           s.scheduleScore.warnings[w] = "Waitlisted")
    IN (IF Len(nonPreferredDays) > 0 THEN <<"avoid non-preferred days">>
        ELSE IF Len(scheduleAnalysis.daysUsed) > 3 THEN <<"fewer days per week">> ELSE <<>>)
       \o (IF FracLess(Frac(90, 1), scheduleAnalysis.averageGapTime)
           THEN <<"shorter gaps">> ELSE <<>>)
       \o (IF FracLess(Frac(8, 1), scheduleAnalysis.longestDay)
           THEN <<"longest day over 8 hours">> ELSE <<>>)
       \o (IF Len(waitlistedSections) > 0 THEN <<"waitlisting">> ELSE <<>>)

generateRecommendations(secs, scheduleAnalysis) ==
    LET nonPreferredDays == SelectSeq(scheduleAnalysis.daysUsed,
            LAMBDA day : day \notin Range(preferences.preferredDays))
        waitlistedSections == SelectSeq(secs,
            LAMBDA s : \E w \in 1..Len(s.scheduleScore.warnings) :
                           s.scheduleScore.warnings[w] = "Waitlisted")
    IN (IF Len(nonPreferredDays) > 0 THEN <<"avoid non-preferred days">> ELSE <<>>)
       \o (IF Len(scheduleAnalysis.daysUsed) > 3 THEN <<"fewer days per week">> ELSE <<>>)
       \o (IF FracLess(Frac(90, 1), scheduleAnalysis.averageGapTime)
           THEN <<"shorter gaps">> ELSE <<>>)
       \o (IF FracLess(Frac(8, 1), scheduleAnalysis.longestDay)
           THEN <<"longest day over 8 hours">> ELSE <<>>)
       \o (IF Len(waitlistedSections) > 0 THEN <<"waitlisting">> ELSE <<>>)

evaluateScheduleCombination(secs) ==
    LET Scored(optimizedSections, scheduleAnalysis) ==
            [sections |-> optimizedSections,
             totalScore |-> calculateCombinationScore(optimizedSections, scheduleAnalysis),
             scheduleAnalysis |-> scheduleAnalysis,
             recommendations |-> generateRecommendations(optimizedSections, scheduleAnalysis)]
        Analysed(optimizedSections) ==
            Scored(optimizedSections, analyzeCompleteSchedule(optimizedSections))
    IN Analysed(analyzeSections(secs))

----------------------------------------------------------------------------
(* Scheduler Facade                                                        *)

DefaultMaxCombinations == 10

\* Array.prototype.slice(0, n)
Slice0(s, n) ==
    SubSeq(s, 1, IF n < 0 THEN Max2(Len(s) + n, 0) ELSE Min2(n, Len(s)))

\* a faulty variant: the slice is taken without sorting first
TopCombinationsUnsorted(scoredCombinations, maxComb) ==
    Slice0(scoredCombinations,
           IF Len(maxComb) = 0 THEN DefaultMaxCombinations ELSE maxComb[1])

\* scoredCombinations.sort((a, b) => b.totalScore - a.totalScore).slice(0, maxCombinations)
TopCombinations(scoredCombinations, maxComb) ==
    Slice0(StableSort(scoredCombinations, LAMBDA a, b : FracLess(b.totalScore, a.totalScore)),
           IF Len(maxComb) = 0 THEN DefaultMaxCombinations ELSE maxComb[1])

\* a faulty variant: the sorted list is returned whole
findOptimalCombinationsUncut(cs, maxComb) ==
    LET Scored(combos) == [i \in 1..Len(combos) |-> evaluateScheduleCombination(combos[i])]
    IN StableSort(Scored(generateScheduleCombinations(cs)),
                  LAMBDA a, b : FracLess(b.totalScore, a.totalScore))

findOptimalCombinations(cs, maxComb) ==
    LET Scored(combos) == [i \in 1..Len(combos) |-> evaluateScheduleCombination(combos[i])]
    IN TopCombinations(Scored(generateScheduleCombinations(cs)), maxComb)

----------------------------------------------------------------------------
(* Inputs                                                                  *)

Meeting(days, time) == [days |-> Txt(days), time |-> Txt(time)]

Section(id, schedule, seats, waitlist) ==
    [id |-> id, schedule |-> schedule, seats |-> seats, waitlist |-> waitlist]

\* new SmartScheduler(): the default argument of the constructor
DefaultPreferences ==
    [preferredDays |-> <<"M", "T", "R">>,
     timePreferences |-> [present |-> FALSE, earliestStart |-> <<>>, latestEnd |-> <<>>,
                          hasAvoidTimeSlots |-> FALSE, avoidTimeSlots |-> <<>>],
     gapPreferences |-> [maxGapBetweenClasses |-> 0],
     prioritizeCompactSchedule |-> FALSE]

\* createMTRScheduler()
MTRPreferences ==
    [preferredDays |-> <<"M", "T", "R">>,
     timePreferences |-> [present |-> TRUE, earliestStart |-> Txt("08:00"),
                          latestEnd |-> Txt("18:00"),
                          hasAvoidTimeSlots |-> TRUE,
                          avoidTimeSlots |-> <<Txt("12:00-13:00")>>],
     gapPreferences |-> [maxGapBetweenClasses |-> 90],
     prioritizeCompactSchedule |-> TRUE]

\* new SmartScheduler({ preferredDays: ['W', 'F'], timePreferences: { latestEnd: '16:00',
\* avoidTimeSlots: [] }, prioritizeCompactSchedule: true })
WFPreferences ==
    [preferredDays |-> <<"W", "F">>,
     timePreferences |-> [present |-> TRUE, earliestStart |-> <<>>,
                          latestEnd |-> Txt("16:00"),
                          hasAvoidTimeSlots |-> TRUE, avoidTimeSlots |-> <<>>],
     gapPreferences |-> [maxGapBetweenClasses |-> 0],
     prioritizeCompactSchedule |-> TRUE]

\* new SmartScheduler({ preferredDays: [] })
NoDayPreferences ==
    [preferredDays |-> <<>>,
     timePreferences |-> [present |-> FALSE, earliestStart |-> <<>>, latestEnd |-> <<>>,
                          hasAvoidTimeSlots |-> FALSE, avoidTimeSlots |-> <<>>],
     gapPreferences |-> [maxGapBetweenClasses |-> 0],
     prioritizeCompactSchedule |-> FALSE]

\* sections of the catalogue
SecA == Section("A", <<Meeting("MWF", "09:00-09:50")>>, 5, 0)
SecB == Section("B", <<Meeting("TR", "10:00-11:20")>>, 0, 3)
SecC == Section("C", <<Meeting("MW", "09:30-10:20"), Meeting("T", "TBA")>>, 0, 0)
\* a section whose own two meetings overlap
SecX == Section("X", <<Meeting("T", "10:00-11:20"), Meeting("T", "09:50-10:40")>>, 2, 0)
\* starts when SecA ends
SecD == Section("D", <<Meeting("M", "09:50-10:40")>>, 1, 0)
\* the same meeting pattern and seats as SecB under another id
SecE == Section("E", <<Meeting("TR", "10:00-11:20")>>, 0, 3)
SecF == Section("F", <<Meeting("MTR", "17:30-18:20"), Meeting("M", "12:30-13:20")>>, 0, 0)
SecG == Section("G", <<Meeting("M T W Th F", "07:30-08:20")>>, 3, 1)
SecH == Section("H", <<Meeting("TBA", "TBA")>>, 4, 0)
SecI == Section("I", <<Meeting("MTWR", "13:00-14:50")>>, 0, 2)
SecJ == Section("J", <<Meeting("TR", "09:00-09:50"), Meeting("TR", "09:50-10:40")>>, 9, 0)
\* crosses midnight
SecN == Section("N", <<Meeting("M", "11:00PM-12:30AM")>>, 1, 0)
\* a time text that is no range
SecU == Section("U", <<Meeting("M", "noon")>>, 1, 0)
SecP == Section("P", <<Meeting("W", "2:00PM-3:50PM"), Meeting("M, Tu", "12:10 pm - 1:00 pm")>>, 0, 0)
SecQ == Section("Q", <<Meeting("F", "09:30-10:20"), Meeting("M", "")>>, 1, 1)

\* the arrays of at most n elements of S
RECURSIVE ListsOf(_, _)
ListsOf(S, n) ==
    IF n = 0 THEN {<<>>}
    ELSE LET shorter == ListsOf(S, n - 1)
         IN shorter \cup {Append(l, x) : l \in shorter, x \in S}

\* the arrays of at most n distinct elements of S
DistinctListsOf(S, n) ==
    {l \in ListsOf(S, n) : \A i, j \in 1..Len(l) : i # j => l[i] # l[j]}

\* the sub-arrays of at most n elements of the array c (elements kept in order)
SubListsOf(c, n) ==
    {l \in ListsOf(Range(c), n) :
        \E pos \in [1..Len(l) -> 1..Len(c)] :
            /\ \A i \in 1..Len(l) : l[i] = c[pos[i]]
            /\ \A i, j \in 1..Len(l) : i < j => pos[i] < pos[j]}

MaxCandidates == 2
MaxCourses == 2
MaxRequested == 2
MaxSections == 3
MaxConflictSections == 2

\* the sections of one course as the catalogue lists them
Catalogue == <<SecA, SecB, SecC, SecX>>

CandidateLists == SubListsOf(Catalogue, MaxCandidates)

\* one course with more candidates than the default number of combinations returned
LongCourse ==
    [i \in 1..(DefaultMaxCombinations + 1) |->
        Section("L", <<Meeting(IF i % 2 = 0 THEN "TR" ELSE "MWF", "09:00-09:50")>>, i, 0)]

CourseInputs == ListsOf(CandidateLists, MaxCourses) \cup {<<LongCourse>>}

MaxCombinationsArgs == {<<>>} \cup {<<n>> : n \in 0..MaxRequested}

PreferencesPool == {DefaultPreferences, MTRPreferences, WFPreferences, NoDayPreferences}

SectionInputs ==
    DistinctListsOf({SecA, SecB, SecC, SecE, SecF, SecG, SecH, SecI, SecJ}, MaxSections)

ConflictInputs ==
    ListsOf({SecA, SecB, SecC, SecX, SecD, SecH, SecN, SecU, SecP, SecQ}, MaxConflictSections)

----------------------------------------------------------------------------
(* findOptimalCombinations called on a fresh scheduler                     *)

InitFind ==
    /\ preferences \in {DefaultPreferences, MTRPreferences}
    /\ coursesSections \in CourseInputs
    /\ maxCombinations \in MaxCombinationsArgs
    /\ sections = <<>>
    /\ op = "none"
    /\ combinations = <<>>
    /\ result = <<>>
    /\ NoFetch

FindOptimalCombinations ==
    /\ op = "none"
    /\ op' = "findOptimalCombinations"
    /\ combinations' = generateScheduleCombinations(coursesSections)
    /\ result' = findOptimalCombinations(coursesSections, maxCombinations)
    /\ UNCHANGED <<preferences, sections, coursesSections, maxCombinations, fetchVars>>

NextFind == FindOptimalCombinations

SpecFind == InitFind /\ [][NextFind]_vars

----------------------------------------------------------------------------
(* Properties of findOptimalCombinations                                   *)

Returned == op = "findOptimalCombinations"

\* the number of combinations asked for
Requested == IF Len(maxCombinations) = 0 THEN DefaultMaxCombinations ELSE maxCombinations[1]

\* a section as the caller passed it, without the fields the analysis adds
Bare(s) == [id |-> s.id, schedule |-> s.schedule, seats |-> s.seats, waitlist |-> s.waitlist]

\* the choices of one candidate index per course
IndexTuples(cs) ==
    IF Len(cs) = 0 THEN {<<>>}
    ELSE {idx \in [1..Len(cs) -> 1..MaxSeq([c \in 1..Len(cs) |-> Len(cs[c])])] :
             \A c \in 1..Len(cs) : idx[c] <= Len(cs[c])}

TupleOf(cs, idx) == [c \in 1..Len(cs) |-> cs[c][idx[c]]]

\* lexicographic order on index tuples of one length
LexLess(a, b) ==
    \E c \in 1..Len(a) : a[c] < b[c] /\ \A d \in 1..(c - 1) : a[d] = b[d]

\* the index tuples whose sections the Conflict Detector accepts
ConflictFree(cs) == {idx \in IndexTuples(cs) : ~hasTimeConflicts(TupleOf(cs, idx))}

\* C1: every combination findOptimalCombinations returns, for any number of courses
\* (one included) and any maxCombinations, has scheduleAnalysis.hasConflicts = false
\* and the Conflict Detector reports false on its member sections.
C1_NoReturnedConflict ==
    Returned =>
        \A i \in 1..Len(result) :
            /\ ~result[i].scheduleAnalysis.hasConflicts
            /\ ~hasTimeConflicts(result[i].sections)

\* C2: for two or more courses generateScheduleCombinations returns exactly the
\* tuples of the Cartesian product of the candidate lists (one section per course,
\* in course order) on which hasTimeConflicts is false, each once, in lexicographic
\* order of the candidate indices.
C2_ConflictFreeProductInOrder ==
    (Returned /\ Len(coursesSections) >= 2) =>
        /\ Len(combinations) = Cardinality(ConflictFree(coursesSections))
        /\ \A idx \in ConflictFree(coursesSections) :
               combinations[1 + Cardinality({o \in ConflictFree(coursesSections) :
                                                LexLess(o, idx)})]
                   = TupleOf(coursesSections, idx)

\* two courses, some tuples of the product pruned and several kept
C2_Witness ==
    /\ Returned
    /\ Len(coursesSections) >= 2
    /\ Len(combinations) >= 2
    /\ Len(combinations) < Cardinality(IndexTuples(coursesSections))

\* C3: every combination returned over k courses holds exactly k sections, one from
\* each course's candidate list, and they are the members of one generated tuple.
C3_OneSectionPerCourse ==
    Returned =>
        \A i \in 1..Len(result) :
            /\ Len(result[i].sections) = Len(coursesSections)
            /\ \E g \in 1..Len(combinations) : \E p \in Permutations(1..Len(coursesSections)) :
                   \A c \in 1..Len(coursesSections) :
                       /\ Bare(result[i].sections[p[c]]) = combinations[g][c]
                       /\ \E n \in 1..Len(coursesSections[c]) :
                              Bare(result[i].sections[p[c]]) = coursesSections[c][n]

\* a returned combination over two courses whose best-scored member is not from the
\* first course
C3_Witness ==
    /\ Returned
    /\ Len(coursesSections) = 2
    /\ Len(result) > 0
    /\ \A n \in 1..Len(coursesSections[1]) :
           Bare(result[1].sections[1]) # coursesSections[1][n]

\* the number of entries of the array s equal to v
CountOf(s, v) == Cardinality({i \in 1..Len(s) : s[i] = v})

\* s is listed in non-increasing totalScore order
ScoreOrdered(s) ==
    \A i, j \in 1..Len(s) : i < j => ~FracLess(s[i].totalScore, s[j].totalScore)

\* kept is a selection of the best of scored: no entry occurs more often than in
\* scored, and an entry that beats a kept one is kept as often as it occurs
TopSelection(kept, scored) ==
    /\ \A i \in 1..Len(kept) : CountOf(kept, kept[i]) <= CountOf(scored, kept[i])
    /\ \A g \in 1..Len(scored) :
           (\E i \in 1..Len(kept) : FracLess(kept[i].totalScore, scored[g].totalScore))
               => CountOf(kept, scored[g]) = CountOf(scored, scored[g])

\* C4: for maxCombinations >= 0 (10 when omitted) findOptimalCombinations returns
\* exactly min(maxCombinations, C) combinations, C the number generated, in
\* non-increasing totalScore order, and none left out beats a returned one.
C4_TopMaxCombinations ==
    Returned =>
        /\ Len(result) = Min2(Requested, Len(combinations))
        /\ ScoreOrdered(result)
        /\ TopSelection(result,
               [g \in 1..Len(combinations) |-> evaluateScheduleCombination(combinations[g])])

\* maxCombinations omitted and more than ten combinations generated: ten come back,
\* in an order that differs from the order of generation
C4_Witness ==
    /\ Returned
    /\ maxCombinations = <<>>
    /\ Len(combinations) > DefaultMaxCombinations
    /\ Len(result) = DefaultMaxCombinations
    /\ Bare(result[1].sections[1]) # combinations[1][1]

\* exactly one course, each of whose candidates is free of conflicts on its own
OneConflictFreeCourse ==
    /\ Len(coursesSections) = 1
    /\ \A n \in 1..Len(coursesSections[1]) : ~hasTimeConflicts(<<coursesSections[1][n]>>)

\* the results are singletons of candidates of the only course, no candidate more
\* often than the course lists it
SingletonsOfCandidates ==
    /\ \A i \in 1..Len(result) : Len(result[i].sections) = 1
    /\ \A i \in 1..Len(result) :
           LET chosen == Bare(result[i].sections[1])
           IN /\ CountOf(coursesSections[1], chosen) > 0
              /\ Cardinality({j \in 1..Len(result) : Bare(result[j].sections[1]) = chosen})
                    <= CountOf(coursesSections[1], chosen)

\* C5 (as stated): one course with N conflict-free candidates and no other course
\* gives N singleton combinations, one per candidate, ordered by descending score.
C5_AllSingletons ==
    (Returned /\ OneConflictFreeCourse) =>
        /\ Len(result) = Len(coursesSections[1])
        /\ SingletonsOfCandidates
        /\ ScoreOrdered(result)

\* C5 (amended): one course with N conflict-free candidates and no other course gives
\* min(N, maxCombinations) singleton combinations (maxCombinations is 10 when
\* omitted), each of a different candidate, in non-increasing totalScore order.
C5_SingletonsUpToMax ==
    (Returned /\ OneConflictFreeCourse) =>
        /\ Len(result) = Min2(Requested, Len(coursesSections[1]))
        /\ SingletonsOfCandidates
        /\ ScoreOrdered(result)

\* one course with more conflict-free candidates than were asked for
C5_Witness ==
    /\ Returned
    /\ OneConflictFreeCourse
    /\ 0 < Requested
    /\ Requested < Len(coursesSections[1])
    /\ Len(result) = Requested

\* C6: findOptimalCombinations returns an empty list when given zero courses, when
\* a course's candidate list is empty, or when no conflict-free combination exists,
\* and never returns a combination covering only some of the courses.
C6_EmptyWhenNothingFits ==
    Returned =>
        /\ (\/ Len(coursesSections) = 0
            \/ \E c \in 1..Len(coursesSections) : Len(coursesSections[c]) = 0
            \/ ConflictFree(coursesSections) = {})
               => result = <<>>
        /\ \A i \in 1..Len(result) : Len(result[i].sections) = Len(coursesSections)

----------------------------------------------------------------------------
(* analyzeSections and filterPreferredDaySections called on a scheduler    *)

InitSections ==
    /\ preferences \in PreferencesPool
    /\ sections \in SectionInputs
    /\ coursesSections = <<>>
    /\ maxCombinations = <<>>
    /\ op = "none"
    /\ combinations = <<>>
    /\ result = <<>>
    /\ NoFetch

\* a faulty variant: the caller's array is sorted in place
AnalyzeSectionsInPlace ==
    /\ op' = "analyzeSections"
    /\ result' = analyzeSections(sections)
    /\ sections' = [i \in 1..Len(sections) |-> Bare(analyzeSections(sections)[i])]
    /\ UNCHANGED <<preferences, coursesSections, maxCombinations, combinations, fetchVars>>

AnalyzeSections ==
    /\ op' = "analyzeSections"
    /\ result' = analyzeSections(sections)
    /\ UNCHANGED <<preferences, sections, coursesSections, maxCombinations, combinations, fetchVars>>

FilterPreferredDaySections ==
    /\ op' = "filterPreferredDaySections"
    /\ result' = filterPreferredDaySections(sections)
    /\ UNCHANGED <<preferences, sections, coursesSections, maxCombinations, combinations, fetchVars>>

NextSections == AnalyzeSections \/ FilterPreferredDaySections

SpecSections == InitSections /\ [][NextSections]_vars

----------------------------------------------------------------------------
(* Properties of analyzeSections and filterPreferredDaySections            *)

Analysed == op = "analyzeSections"

Filtered == op = "filterPreferredDaySections"

\* C7: for every section and every Preferences value the score the Section Scorer
\* gives (scheduleScore.score) lies in [0, 100].
C7_SectionScoreInRange ==
    (Analysed \/ Filtered) =>
        \A i \in 1..Len(result) :
            /\ result[i].scheduleScore = calculateSectionScore(Bare(result[i]),
                                                               result[i].dayAnalysis)
            /\ 0 <= result[i].scheduleScore.score
            /\ result[i].scheduleScore.score <= 100

\* a section that collects the most of every component: 40 for its days, the capped
\* 20 for four time slots, the capped 20 for compactness, 10 for open seats
C7_Witness ==
    /\ Analysed
    /\ \E i \in 1..Len(result) :
           /\ result[i].scheduleScore.score = 90
           /\ Len(result[i].dayAnalysis.timeSlots) >= 4

\* the index of the section v in the input array (the inputs list no section twice)
InputIndex(v) == CHOOSE n \in 1..Len(sections) : sections[n] = v

\* C8: analyzeSections returns one OptimizedSection per input section (the same
\* multiset, none added or dropped), in non-increasing scheduleScore.score order,
\* sections of equal score in their input order.
C8_StableDescendingAnalysis ==
    Analysed =>
        /\ Len(result) = Len(sections)
        /\ \A n \in 1..Len(sections) :
               Cardinality({i \in 1..Len(result) : Bare(result[i]) = sections[n]})
                   = CountOf(sections, sections[n])
        /\ \A i \in 1..Len(result) : result[i] = OptimizeSection(Bare(result[i]))
        /\ \A i, j \in 1..Len(result) :
               i < j =>
                   /\ result[i].scheduleScore.score >= result[j].scheduleScore.score
                   /\ result[i].scheduleScore.score = result[j].scheduleScore.score
                          => InputIndex(Bare(result[i])) < InputIndex(Bare(result[j]))

\* three sections, two of them of equal score, returned in another order than given
C8_Witness ==
    /\ Analysed
    /\ Len(result) = 3
    /\ Bare(result[1]) # sections[1]
    /\ \E i \in 1..2 : result[i].scheduleScore.score = result[i + 1].scheduleScore.score

\* the condition of the filter on a DayAnalysis
PreferredDayCondition(dayAnalysis) ==
    \/ dayAnalysis.matchesPreferredDays
    \/ dayAnalysis.nonPreferredDayCount = 0
    \/ (dayAnalysis.preferredDayCount >= 2 /\ dayAnalysis.nonPreferredDayCount <= 1)

\* kept lists, in order, the entries of all whose DayAnalysis meets the condition
SelectedInOrder(kept, all) ==
    /\ Len(kept) = Cardinality({i \in 1..Len(all) : PreferredDayCondition(all[i].dayAnalysis)})
    /\ \A i \in 1..Len(all) :
           PreferredDayCondition(all[i].dayAnalysis) =>
               kept[Cardinality({j \in 1..i : PreferredDayCondition(all[j].dayAnalysis)})]
                   = all[i]

\* the section meets on Monday, Tuesday or Thursday and on no other day
MeetsOnlyMTR(section) ==
    /\ Len(analyzeSectionDays(section).daysOfWeek) > 0
    /\ Range(analyzeSectionDays(section).daysOfWeek) \subseteq {"M", "T", "R"}

\* C9: filterPreferredDaySections returns exactly the entries of
\* analyzeSections(sections), in the same order, whose DayAnalysis has
\* matchesPreferredDays, or nonPreferredDayCount = 0, or preferredDayCount >= 2 and
\* nonPreferredDayCount <= 1; a section meeting only on M/T/R under the default
\* preferences is among them.
C9_FilterKeepsPreferredDays ==
    Filtered =>
        /\ SelectedInOrder(result, analyzeSections(sections))
        /\ preferences = DefaultPreferences =>
               \A n \in 1..Len(sections) :
                   MeetsOnlyMTR(sections[n]) =>
                       \E i \in 1..Len(result) : Bare(result[i]) = sections[n]

\* under the default preferences the filter drops a section, keeps one that meets
\* only on M/T/R, and keeps one for its two preferred days and single other day
C9_Witness ==
    /\ Filtered
    /\ preferences = DefaultPreferences
    /\ Len(result) < Len(sections)
    /\ \E i \in 1..Len(result) : MeetsOnlyMTR(Bare(result[i]))
    /\ \E i \in 1..Len(result) :
           /\ ~result[i].dayAnalysis.matchesPreferredDays
           /\ result[i].dayAnalysis.nonPreferredDayCount = 1

----------------------------------------------------------------------------
(* The Conflict Detector applied to a set of sections                      *)

InitConflicts ==
    /\ preferences = DefaultPreferences
    /\ sections \in ConflictInputs
    /\ coursesSections = <<>>
    /\ maxCombinations = <<>>
    /\ op = "none"
    /\ combinations = <<>>
    /\ result = FALSE
    /\ NoFetch

HasTimeConflicts ==
    /\ op = "none"
    /\ op' = "hasTimeConflicts"
    /\ result' = hasTimeConflicts(sections)
    /\ UNCHANGED <<preferences, sections, coursesSections, maxCombinations, combinations, fetchVars>>

NextConflicts == HasTimeConflicts

SpecConflicts == InitConflicts /\ [][NextConflicts]_vars

----------------------------------------------------------------------------
(* Properties of the Conflict Detector                                     *)

Checked == op = "hasTimeConflicts"

\* <<s, m, d>>: day d of meeting m of section s, for the meetings with a time
MeetingDays(secs) ==
    UNION {UNION {{<<s, m, d>> : d \in 1..Len(parseDaysString(secs[s].schedule[m].days))} :
                     m \in {k \in 1..Len(secs[s].schedule) :
                               /\ Len(secs[s].schedule[k].time) > 0
                               /\ secs[s].schedule[k].time # TBA}} :
              s \in 1..Len(secs)}

\* the (day, startMinutes, endMinutes) triple of a meeting day
TripleOf(secs, e) ==
    [day   |-> parseDaysString(secs[e[1]].schedule[e[2]].days)[e[3]],
     start |-> timeToMinutes(parseTimeString(secs[e[1]].schedule[e[2]].time).startTime),
     end   |-> timeToMinutes(parseTimeString(secs[e[1]].schedule[e[2]].time).endTime)]

\* C10: hasTimeConflicts(sections) is true iff two distinct triples (day,
\* startMinutes, endMinutes) of the meetings whose time is not TBA fall on the same
\* day with start1 < end2 and end1 > start2; meetings that touch end to start, or
\* fall on different days, do not conflict.
C10_ConflictIffOverlappingPair ==
    Checked =>
        (result <=>
            \E e1, e2 \in MeetingDays(sections) :
                /\ e1 # e2
                /\ TripleOf(sections, e1).day = TripleOf(sections, e2).day
                /\ TripleOf(sections, e1).start < TripleOf(sections, e2).end
                /\ TripleOf(sections, e1).end > TripleOf(sections, e2).start)

\* two meetings on one day, the second starting the minute the first ends, and no
\* conflict reported
C10_Witness ==
    /\ Checked
    /\ result = FALSE
    /\ \E e1, e2 \in MeetingDays(sections) :
           /\ TripleOf(sections, e1).day = TripleOf(sections, e2).day
           /\ TripleOf(sections, e1).end = TripleOf(sections, e2).start
           /\ TripleOf(sections, e1).start < TripleOf(sections, e1).end

\* the array s in reverse order
Reversed(s) == [i \in 1..Len(s) |-> s[Len(s) + 1 - i]]

\* the sections taken in the order p, those of flipped with their meetings reversed
Rearranged(secs, p, flipped) ==
    [i \in 1..Len(secs) |->
        IF p[i] \in flipped
        THEN [secs[p[i]] EXCEPT !.schedule = Reversed(secs[p[i]].schedule)]
        ELSE secs[p[i]]]

\* C11: the Conflict Detector is symmetric and order-independent:
\* hasTimeConflicts([A, B]) = hasTimeConflicts([B, A]), and permuting the sections,
\* or the meetings inside a section, never changes the result.
C11_ConflictOrderIndependent ==
    Checked =>
        \A p \in Permutations(1..Len(sections)) : \A flipped \in SUBSET (1..Len(sections)) :
            hasTimeConflicts(Rearranged(sections, p, flipped)) = result

\* two different sections, one of them with two meetings, that conflict with each
\* other though neither conflicts with itself
C11_Witness ==
    /\ Checked
    /\ result = TRUE
    /\ Len(sections) = 2
    /\ sections[1] # sections[2]
    /\ Len(sections[1].schedule) = 2
    /\ ~hasTimeConflicts(<<sections[1]>>)
    /\ ~hasTimeConflicts(<<sections[2]>>)
    /\ hasTimeConflicts(<<sections[2], sections[1]>>)

----------------------------------------------------------------------------
(* The day parser applied to the days text of a meeting                    *)

\* the single-letter day codes in week order
WeekCodes == <<"M", "T", "W", "R", "F">>

RECURSIVE Join(_, _)
\* the texts of the array codes written one after the other with sep in between
Join(codes, sep) ==
    IF Len(codes) <= 1 THEN codes
    ELSE <<codes[1]>> \o sep \o Join(Tail(codes), sep)

\* the separators a days text puts between day codes
DaySeparators == {<<>>, <<" ">>, <<",", " ">>}

\* the text listing the day codes of S in week order
ListedDays(S, sep) == Join(SelectSeq(WeekCodes, LAMBDA c : c \in S), sep)

\* days texts: lists of day codes, single abbreviations, and other text
DayTexts ==
    {ListedDays(S, sep) : S \in (SUBSET Range(WeekCodes)) \ {{}}, sep \in DaySeparators}
    \cup {dayMap[n][1] : n \in 1..Len(dayMap)}
    \cup {TBA, <<>>, Txt("M, Tu"), Txt("M T W Th F"),
          <<"M", "W", "F", ",", " ", "T", "R">>,
          <<"T", "u", "T", "h">>,
          <<"o", "n", "l", "i", "n", "e">>}

\* the days text of the meeting under analysis
DaysText == sections[1].schedule[1].days

InitDays ==
    /\ preferences = DefaultPreferences
    /\ sections \in {<<Section("S", <<[days |-> d, time |-> Txt("09:00-09:50")]>>, 1, 0)>> :
                        d \in DayTexts}
    /\ coursesSections = <<>>
    /\ maxCombinations = <<>>
    /\ op = "none"
    /\ combinations = <<>>
    /\ result = <<>>
    /\ NoFetch

ParseDaysString ==
    /\ op' = "parseDaysString"
    /\ result' = parseDaysString(DaysText)
    /\ UNCHANGED <<preferences, sections, coursesSections, maxCombinations, combinations, fetchVars>>

AnalyzeSectionDays ==
    /\ op' = "analyzeSectionDays"
    /\ result' = analyzeSectionDays(sections[1])
    /\ UNCHANGED <<preferences, sections, coursesSections, maxCombinations, combinations, fetchVars>>

NextDays == ParseDaysString \/ AnalyzeSectionDays

SpecDays == InitDays /\ [][NextDays]_vars

----------------------------------------------------------------------------
(* Properties of the day parser                                            *)

DaysParsed == op = "parseDaysString"

DaysAnalysed == op = "analyzeSectionDays"

\* the array s lists no element twice
NoDuplicates(s) == \A i, j \in 1..Len(s) : i # j => s[i] # s[j]

\* C12: for a days text that lists a non-empty subset of the day codes M, T, W, R, F
\* in week order, with or without separating spaces or commas, parseDays returns
\* exactly that subset, and DayAnalysis.daysOfWeek is the set of the days the
\* section meets.
C12_ListedDaysParsed ==
    \A S \in (SUBSET Range(WeekCodes)) \ {{}} : \A sep \in DaySeparators :
        DaysText = ListedDays(S, sep) =>
            /\ DaysParsed => (Range(result) = S /\ NoDuplicates(result))
            /\ DaysAnalysed =>
                   (Range(result.daysOfWeek) = S /\ NoDuplicates(result.daysOfWeek))

\* text without its spaces and commas
Stripped(text) == SelectSeq(text, LAMBDA c : c \notin {" ", ","})

\* pat occurs in text as a run of consecutive characters
Occurs(pat, text) ==
    \E i \in 1..(Len(text) - Len(pat) + 1) :
        \A k \in 1..Len(pat) : text[i + k - 1] = pat[k]

\* the symbols of the abbreviations that occur in text
AbbreviatedDays(text) ==
    {dayMap[n][2] : n \in {k \in 1..Len(dayMap) : Occurs(dayMap[k][1], text)}}

\* C13: parseDays applies its rules first match wins: empty text or "TBA" gives {};
\* else, on the text without spaces and commas, containing "TR" gives exactly
\* {T, R}; else containing "MWF" gives exactly {M, W, F}; else the deduplicated
\* symbols of every abbreviation of the table that occurs in it.  So "TR" -> {T, R},
\* "MWF" -> {M, W, F}, "M W F" -> {M, W, F}, "TBA" -> {}.
C13_DayRulesFirstMatchWins ==
    DaysParsed =>
        /\ NoDuplicates(result)
        /\ Range(result) =
              IF DaysText = <<>> \/ DaysText = TBA THEN {}
              ELSE IF Occurs(<<"T", "R">>, Stripped(DaysText)) THEN {"T", "R"}
              ELSE IF Occurs(<<"M", "W", "F">>, Stripped(DaysText)) THEN {"M", "W", "F"}
              ELSE AbbreviatedDays(Stripped(DaysText))
        /\ DaysText = Txt("TR") => Range(result) = {"T", "R"}
        /\ DaysText = Txt("MWF") => Range(result) = {"M", "W", "F"}
        /\ DaysText = Txt("M W F") => Range(result) = {"M", "W", "F"}
        /\ DaysText = Txt("TBA") => Range(result) = {}

\* a text that holds both "MWF" and "TR", parsed as Tuesday and Thursday alone
C13_Witness ==
    /\ DaysParsed
    /\ Occurs(<<"M", "W", "F">>, Stripped(DaysText))
    /\ Occurs(<<"T", "R">>, Stripped(DaysText))
    /\ result = <<"T", "R">>

\* C14: for every entry of the abbreviation table given alone as the days text
\* (M, Mo, Mon, Monday, ..., F, Fr, Fri, Friday) parseDays returns exactly the set
\* of the one symbol the table maps that entry to.
C14_AbbreviationAlone ==
    DaysParsed =>
        \A n \in 1..Len(dayMap) :
            DaysText = dayMap[n][1] => result = <<dayMap[n][2]>>

----------------------------------------------------------------------------
(* The time parser applied to the time text of a meeting                   *)

\* hours written on a 12-hour clock, and on a 24-hour clock
HourTexts12 == {<<"1">>, <<"2">>, <<"9">>, <<"1", "1">>, <<"1", "2">>}

HourTexts24 == HourTexts12 \cup {<<"0">>, <<"0", "9">>, <<"1", "3">>, <<"2", "3">>}

MinuteTexts == {<<"0", "0">>, <<"3", "0">>}

\* one end of a range: h:mm, or h:mm followed by AM or PM
ClockTexts ==
    {h \o <<":">> \o m : h \in HourTexts24, m \in MinuteTexts}
    \cup {h \o <<":">> \o m \o x : h \in HourTexts12, m \in MinuteTexts,
                                  x \in {<<"A", "M">>, <<"P", "M">>, <<"p", "m">>}}

\* time texts of the form h:mm[AM|PM]-h:mm[AM|PM] with valid clock values
RangeTexts ==
    {a \o sep \o b : a \in ClockTexts, b \in ClockTexts, sep \in {<<"-">>, <<" ", "-", " ">>}}

\* further time texts: the examples of the documentation, and text that is no range
OtherTimeTexts ==
    {Txt("2:00PM-3:50PM"), Txt("11:00PM-12:30AM"), Txt("12:10 pm - 1:00 pm"),
     <<"1", "0", ":", "3", "0", "-", "1", "1", ":", "2", "0">>,
     TBA, <<>>, Txt("noon"), Txt("08:00"), <<"1", "0", "-", "1", "1">>}

\* the time text of the meeting under analysis
TimeText == sections[1].schedule[1].time

InitTime ==
    /\ preferences = DefaultPreferences
    /\ sections \in {<<Section("S", <<[days |-> Txt("M"), time |-> x]>>, 1, 0)>> :
                        x \in RangeTexts \cup OtherTimeTexts}
    /\ coursesSections = <<>>
    /\ maxCombinations = <<>>
    /\ op = "none"
    /\ combinations = <<>>
    /\ result = <<>>
    /\ NoFetch

ParseTimeString ==
    /\ op = "none"
    /\ op' = "parseTimeString"
    /\ result' = parseTimeString(TimeText)
    /\ UNCHANGED <<preferences, sections, coursesSections, maxCombinations, combinations, fetchVars>>

NextTime == ParseTimeString

SpecTime == InitTime /\ [][NextTime]_vars

----------------------------------------------------------------------------
(* Properties of the time parser                                           *)

TimeParsed == op = "parseTimeString"

\* the position of the first character c of text
FirstAt(text, c) == CHOOSE i \in 1..Len(text) : text[i] = c /\ \A j \in 1..(i - 1) : text[j] # c

\* the two ends of a range text, as written, without spaces
WrittenStart(text) == SelectSeq(SubSeq(text, 1, FirstAt(text, "-") - 1), LAMBDA c : c # " ")

WrittenEnd(text) ==
    SelectSeq(SubSeq(text, FirstAt(text, "-") + 1, Len(text)), LAMBDA c : c # " ")

RECURSIVE NumberOf(_)
\* the number a text of decimal digits writes
NumberOf(digits) ==
    IF Len(digits) = 0 THEN 0
    ELSE 10 * NumberOf(SubSeq(digits, 1, Len(digits) - 1))
         + (CHOOSE v \in 0..9 : Digits[v + 1] = digits[Len(digits)])

\* hour, minute and suffix ("", "AM" or "PM") written in one end h:mm[AM|PM]
WrittenHour(clock) == NumberOf(SubSeq(clock, 1, FirstAt(clock, ":") - 1))

WrittenMinute(clock) ==
    NumberOf(SubSeq(clock, FirstAt(clock, ":") + 1, FirstAt(clock, ":") + 2))

WrittenSuffix(clock) ==
    IF Len(clock) = FirstAt(clock, ":") + 2 THEN ""
    ELSE IF clock[FirstAt(clock, ":") + 3] \in {"P", "p"} THEN "PM" ELSE "AM"

\* the hour on the 24-hour clock: PM adds 12 except to 12, 12 AM is 0
NormalHour(clock) ==
    IF WrittenSuffix(clock) = "PM" /\ WrittenHour(clock) # 12 THEN WrittenHour(clock) + 12
    ELSE IF WrittenSuffix(clock) = "AM" /\ WrittenHour(clock) = 12 THEN 0
    ELSE WrittenHour(clock)

\* minutes since midnight of one end of a range
NormalMinutes(clock) == NormalHour(clock) * 60 + WrittenMinute(clock)

\* a number below 100 written with two digits
TwoDigits(n) == <<Digits[(n \div 10) + 1], Digits[(n % 10) + 1]>>

\* HH:MM on the 24-hour clock of one end of a range
NormalClock(clock) == TwoDigits(NormalHour(clock)) \o <<":">> \o TwoDigits(WrittenMinute(clock))

\* C15: for a time text h:mm[AM|PM]-h:mm[AM|PM] with valid clock values
\* parseTimeRange returns durationMinutes = endMinutes - startMinutes, 1440 added
\* only when that difference is negative (the difference modulo 24 hours, always in
\* 0..1439); "10:30-11:20" gives 50 and "11:00PM-12:30AM" gives 90.
C15_DurationModuloDay ==
    TimeParsed =>
        /\ TimeText \in RangeTexts =>
               /\ result.duration \in 0..1439
               /\ result.duration =
                      (NormalMinutes(WrittenEnd(TimeText))
                       - NormalMinutes(WrittenStart(TimeText))) % 1440
        /\ TimeText = <<"1", "0", ":", "3", "0", "-", "1", "1", ":", "2", "0">> =>
               result.duration = 50
        /\ TimeText = Txt("11:00PM-12:30AM") => result.duration = 90

\* C16: parseTimeRange normalizes each end of the range on its own to 24-hour
\* HH:MM: with PM an hour other than 12 becomes h + 12 and 12 stays 12; with AM 12
\* becomes 0 and any other hour is unchanged; with no suffix the hour is unchanged;
\* the minutes are unchanged ("2:00PM-3:50PM" starts 14:00 and ends 15:50).
C16_EndsNormalisedTo24Hour ==
    TimeParsed =>
        /\ (TimeText \in RangeTexts \/ TimeText = Txt("2:00PM-3:50PM")) =>
               /\ result.startTime = NormalClock(WrittenStart(TimeText))
               /\ result.endTime = NormalClock(WrittenEnd(TimeText))
        /\ TimeText = Txt("2:00PM-3:50PM") =>
               /\ result.startTime = <<"1", "4", ":", "0", "0">>
               /\ result.endTime = <<"1", "5", ":", "5", "0">>

\* a range from 12 PM, which stays 12, to 12:30 AM, which becomes 00:30
C16_Witness ==
    /\ TimeParsed
    /\ TimeText \in RangeTexts
    /\ WrittenStart(TimeText) = <<"1", "2", ":", "0", "0", "P", "M">>
    /\ WrittenEnd(TimeText) = <<"1", "2", ":", "3", "0", "A", "M">>
    /\ result.startTime = <<"1", "2", ":", "0", "0">>
    /\ result.endTime = <<"0", "0", ":", "3", "0">>

----------------------------------------------------------------------------
(* The operations applied to sections with malformed meeting text          *)

\* days texts that name no day
UnparsableDayTexts == {<<>>, TBA, <<"o", "n", "l", "i", "n", "e">>}

\* time texts that are no range
UnparsableTimeTexts == {<<>>, TBA, Txt("noon"), <<"1", "0", "-", "1", "1">>}

\* sections of one meeting whose days or time text is malformed
MalformedSections ==
    {Section("S", <<[days |-> d, time |-> x]>>, 1, 0) :
        d \in UnparsableDayTexts \cup {Txt("M")}, x \in UnparsableTimeTexts}

MaxMalformedSections == 2

InitMalformed ==
    /\ preferences \in {DefaultPreferences, MTRPreferences}
    /\ sections \in ListsOf(MalformedSections, MaxMalformedSections) \ {<<>>}
    /\ coursesSections \in {<<sections>>, [i \in 1..Len(sections) |-> <<sections[i]>>]}
    /\ maxCombinations = <<>>
    /\ op = "none"
    /\ combinations = <<>>
    /\ result = <<>>
    /\ NoFetch

NextMalformed ==
    \/ AnalyzeSections
    \/ FilterPreferredDaySections
    \/ FindOptimalCombinations
    \/ ParseDaysString
    \/ ParseTimeString

SpecMalformed == InitMalformed /\ [][NextMalformed]_vars

\* the section meets on no day and has no time slot
NoDaysAnalysed(section) ==
    section.dayAnalysis.daysOfWeek = <<>> /\ section.dayAnalysis.timeSlots = <<>>

\* every time slot of the section is the zero-duration slot at 00:00-00:00
MidnightSlotsOnly(section) ==
    \A k \in 1..Len(section.dayAnalysis.timeSlots) :
        /\ section.dayAnalysis.timeSlots[k].startTime = <<"0", "0", ":", "0", "0">>
        /\ section.dayAnalysis.timeSlots[k].endTime = <<"0", "0", ":", "0", "0">>
        /\ section.dayAnalysis.timeSlots[k].duration = 0

\* the analysis of a section with malformed meeting text
MalformedAnalysed(section) ==
    /\ section.schedule[1].days \in UnparsableDayTexts => NoDaysAnalysed(section)
    /\ section.schedule[1].time \in UnparsableTimeTexts => MidnightSlotsOnly(section)
    /\ section.scheduleScore.score \in 0..100

----------------------------------------------------------------------------
(* The day-match component of the section score                            *)

\* the points of the availability bonus of a section
AvailabilityPoints(section) ==
    IF section.seats > 0 THEN 10 ELSE IF section.waitlist > 0 THEN 5 ELSE 0

\* the points the time-fit and compactness components give an analysed section
TimePoints(section) ==
    IF preferences.timePreferences.present
    THEN calculateTimeScore(section.dayAnalysis.timeSlots).score ELSE 0

CompactPoints(section) ==
    IF preferences.prioritizeCompactSchedule
    THEN calculateCompactScore(section.dayAnalysis).score ELSE 0

\* what is left of the score of an analysed section for the day match
DayMatchComponent(section) ==
    section.scheduleScore.score
        - TimePoints(section) - CompactPoints(section) - AvailabilityPoints(section)

\* the days of the section that are, or are not, preferred days
PreferredDaysOf(section) ==
    Range(section.dayAnalysis.daysOfWeek) \cap Range(preferences.preferredDays)

NonPreferredDaysOf(section) ==
    Range(section.dayAnalysis.daysOfWeek) \ Range(preferences.preferredDays)

DayMatchPoints(section) ==
    IF section.dayAnalysis.daysOfWeek # <<>> /\ NonPreferredDaysOf(section) = {} THEN 40
    ELSE IF Cardinality(PreferredDaysOf(section)) >= 2 THEN 25
    ELSE IF Cardinality(PreferredDaysOf(section)) = 1 THEN 10
    ELSE 0

MeetsOn(section, days) == section.dayAnalysis.daysOfWeek = days

\* C18: the day-match component of a section score is 40 when the section has at
\* least one day and no non-preferred day, else 25 when it has two or more preferred
\* days, else 10 when it has exactly one preferred day, else 0; so with the default
\* preferences (M, T, R) an MWF section gets 10, a TR section gets 40, and with equal
\* seat availability analyzeSections ranks the TR section before the MWF section.
C18_DayMatchComponent ==
    Analysed =>
        /\ \A i \in 1..Len(result) : DayMatchComponent(result[i]) = DayMatchPoints(result[i])
        /\ preferences = DefaultPreferences =>
               \A i, j \in 1..Len(result) :
                   /\ MeetsOn(result[i], <<"M", "W", "F">>) => DayMatchComponent(result[i]) = 10
                   /\ MeetsOn(result[i], <<"T", "R">>) => DayMatchComponent(result[i]) = 40
                   /\ ( /\ MeetsOn(result[i], <<"T", "R">>)
                        /\ MeetsOn(result[j], <<"M", "W", "F">>)
                        /\ AvailabilityPoints(result[i]) = AvailabilityPoints(result[j]) )
                      => i < j

\* under the default preferences the MWF section with seats, listed first, is ranked
\* after the TR section with seats: 10 + 10 against 40 + 10
C18_Witness ==
    /\ Analysed
    /\ preferences = DefaultPreferences
    /\ sections = <<SecA, SecJ>>
    /\ Len(result) = 2
    /\ result[1].id = "J" /\ result[1].scheduleScore.score = 50
    /\ result[2].id = "A" /\ result[2].scheduleScore.score = 20

----------------------------------------------------------------------------
(* The section scorer and its components on one section                    *)

\* two meetings on Tuesday, 70 minutes apart
SecK == Section("K", <<Meeting("T", "10:00-11:20"), Meeting("T", "12:30-13:20")>>, 1, 0)
\* four days a week, two back-to-back meetings on each
SecM == Section("M", <<Meeting("MTWR", "09:00-09:50"), Meeting("MTWR", "09:50-10:40")>>, 1, 0)
\* five days a week, two back-to-back meetings on each
SecW ==
    Section("W", <<Meeting("M T W Th F", "09:00-09:50"), Meeting("M T W Th F", "09:50-10:40")>>,
            0, 1)

ScorerSections == {SecA, SecB, SecC, SecF, SecG, SecH, SecI, SecJ, SecK, SecM, SecW, SecP}

\* avoidTimeSlots: undefined, [], or some ranges
AvoidTimeSlotsPool ==
    {[has |-> FALSE, slots |-> <<>>],
     [has |-> TRUE, slots |-> <<>>],
     [has |-> TRUE, slots |-> <<Txt("12:00-13:00")>>],
     [has |-> TRUE, slots |-> <<Txt("09:50-10:40"), Txt("12:00-13:00")>>]}

\* timePreferences: undefined, or an object with each of its fields optional
TimePreferencesPool ==
    {[present |-> FALSE, earliestStart |-> <<>>, latestEnd |-> <<>>,
      hasAvoidTimeSlots |-> FALSE, avoidTimeSlots |-> <<>>]}
    \cup {[present |-> TRUE, earliestStart |-> e, latestEnd |-> l,
           hasAvoidTimeSlots |-> a.has, avoidTimeSlots |-> a.slots] :
             e \in {<<>>, Txt("08:00"), <<"0", "9", ":", "3", "0">>},
             l \in {<<>>, Txt("16:00"), Txt("18:00")},
             a \in AvoidTimeSlotsPool}

\* gapPreferences.maxGapBetweenClasses: unset (0), or a number of minutes
MaxGapPool == {0, 30, 90}

ScorerPreferences ==
    {[preferredDays |-> <<"M", "T", "R">>, timePreferences |-> tp,
      gapPreferences |-> [maxGapBetweenClasses |-> g], prioritizeCompactSchedule |-> c] :
        tp \in TimePreferencesPool, g \in MaxGapPool, c \in BOOLEAN}

InitScorer ==
    /\ preferences \in ScorerPreferences
    /\ sections \in {<<s>> : s \in ScorerSections}
    /\ coursesSections = <<>>
    /\ maxCombinations = <<>>
    /\ op = "none"
    /\ combinations = <<>>
    /\ result = <<>>
    /\ NoFetch

\* calculateSectionScore(section, analyzeSectionDays(section)), kept with the section
CalculateSectionScore ==
    /\ op' = "calculateSectionScore"
    /\ result' = OptimizeSection(sections[1])
    /\ UNCHANGED <<preferences, sections, coursesSections, maxCombinations, combinations, fetchVars>>

\* calculateTimeScore(dayAnalysis.timeSlots), called when timePreferences is set
CalculateTimeScore ==
    /\ preferences.timePreferences.present
    /\ op' = "calculateTimeScore"
    /\ result' = calculateTimeScore(analyzeSectionDays(sections[1]).timeSlots)
    /\ UNCHANGED <<preferences, sections, coursesSections, maxCombinations, combinations, fetchVars>>

\* calculateCompactScore(dayAnalysis), called when prioritizeCompactSchedule is set
CalculateCompactScore ==
    /\ preferences.prioritizeCompactSchedule
    /\ op' = "calculateCompactScore"
    /\ result' = calculateCompactScore(analyzeSectionDays(sections[1]))
    /\ UNCHANGED <<preferences, sections, coursesSections, maxCombinations, combinations, fetchVars>>

NextScorer ==
    \/ CalculateSectionScore
    \/ CalculateTimeScore
    \/ CalculateCompactScore

SpecScorer == InitScorer /\ [][NextScorer]_vars

SectionScored == op = "calculateSectionScore"

TimeScored == op = "calculateTimeScore"

CompactScored == op = "calculateCompactScore"

\* the time slots of the section that is scored
ScoredSlots == analyzeSectionDays(sections[1]).timeSlots

\* minutes since midnight of a clock written "HH:MM"
ClockMinutes(clock) == 60 * NumberOf(SubSeq(clock, 1, 2)) + NumberOf(SubSeq(clock, 4, 5))

\* the slot overlaps the range written "HH:MM-HH:MM"
OverlapsRange(slot, range) ==
    /\ ClockMinutes(slot.startTime) < ClockMinutes(SubSeq(range, 7, 11))
    /\ ClockMinutes(slot.endTime) > ClockMinutes(SubSeq(range, 1, 5))

\* the outcomes of the checks that are configured, for one slot
ConfiguredChecks(slot) ==
    LET Checks(tp) ==
            (IF Len(tp.earliestStart) > 0
             THEN <<ClockMinutes(slot.startTime) >= ClockMinutes(tp.earliestStart)>> ELSE <<>>)
            \o (IF Len(tp.latestEnd) > 0
                THEN <<ClockMinutes(slot.endTime) <= ClockMinutes(tp.latestEnd)>> ELSE <<>>)
            \o (IF tp.hasAvoidTimeSlots
                THEN <<\A i \in 1..Len(tp.avoidTimeSlots) :
                           ~OverlapsRange(slot, tp.avoidTimeSlots[i])>>
                ELSE <<>>)
    IN Checks(preferences.timePreferences)

\* the number of configured checks with the given outcome, summed over the slots
ChecksWith(outcome, slots) ==
    SumSeq([i \in 1..Len(slots) |->
               Len(SelectSeq(ConfiguredChecks(slots[i]), LAMBDA passed : passed = outcome))])

TimeTags ==
    {"Starts after", "Ends before", "Starts before preferred time",
     "Ends after preferred time", "Conflicts with avoided time slot"}

TimeTagsIn(messages) == Len(SelectSeq(messages, LAMBDA m : m \in TimeTags))

----------------------------------------------------------------------------
(* The compactness component                                               *)

\* the configured maximum gap, 60 minutes when none is configured
ConfiguredMaxGap ==
    IF preferences.gapPreferences.maxGapBetweenClasses # 0
    THEN preferences.gapPreferences.maxGapBetweenClasses ELSE 60

\* no gap between consecutive slots of the day exceeds the maximum gap
GapsWithinMaximum(daySlots) ==
    \A i \in 1..(Len(daySlots) - 1) :
        ClockMinutes(daySlots[i + 1].startTime) - ClockMinutes(daySlots[i].endTime)
            <= ConfiguredMaxGap

CompactBase(dayAnalysis) ==
    IF Len(dayAnalysis.daysOfWeek) <= 3 THEN 15
    ELSE IF Len(dayAnalysis.daysOfWeek) = 4 THEN 8 ELSE 0

\* one +5 when some day has two or more slots whose gaps stay within the maximum
CompactBonus(dayAnalysis) ==
    LET Bonus(byDay) ==
            IF \E d \in 1..Len(byDay) : Len(byDay[d]) >= 2 /\ GapsWithinMaximum(byDay[d])
            THEN 5 ELSE 0
    IN Bonus(groupTimeSlotsByDay(dayAnalysis.timeSlots))

CompactComponent(dayAnalysis) ==
    Min2(20, CompactBase(dayAnalysis) + CompactBonus(dayAnalysis))

\* C20: when prioritizeCompactSchedule is set, the compactness component is
\* min(20, base + bonus), base being 15 for at most 3 distinct days, 8 for exactly 4
\* and 0 for 5, and bonus one additional +5 awarded iff the section has a day with
\* two or more slots whose gaps between consecutive slots (sorted by start time)
\* never exceed the configured maximum gap, 60 minutes when none is configured.
C20_CompactComponent ==
    /\ CompactScored => result.score = CompactComponent(analyzeSectionDays(sections[1]))
    /\ (SectionScored /\ preferences.prioritizeCompactSchedule) =>
           CompactPoints(result) = CompactComponent(result.dayAnalysis)

----------------------------------------------------------------------------
(* The score of a combination                                              *)

\* the distinct days the member sections of a combination meet on
UsedDays(combination) ==
    UNION {Range(combination.sections[k].dayAnalysis.daysOfWeek) :
              k \in 1..Len(combination.sections)}

\* the sum of the member section scores
MemberScoreSum(combination) ==
    SumSeq([k \in 1..Len(combination.sections) |->
               combination.sections[k].scheduleScore.score])

\* the bonuses of a combination
CombinationBonus(combination) ==
    5 * Cardinality(UsedDays(combination) \cap Range(preferences.preferredDays))
    + (IF Cardinality(UsedDays(combination)) <= 3 THEN 15 ELSE 0)
    + (IF ~combination.scheduleAnalysis.hasConflicts THEN 10 ELSE 0)

\* the fraction q equals min(100, sum / n + bonus)
IsCombinationScore(q, sum, n, bonus) ==
    /\ q.den > 0
    /\ IF sum + bonus * n >= 100 * n
       THEN q.num = 100 * q.den
       ELSE q.num * n = (sum + bonus * n) * q.den

\* C21: for every evaluated combination, totalScore = min(100, mean of the member
\* section scores + 5 x (number of distinct used days that are preferred) + (15 if
\* at most 3 distinct days are used, else 0) + (10 if hasConflicts is false, else
\* 0)), and the mean is taken over a non-empty member list.
C21_CombinationScore ==
    Returned =>
        \A i \in 1..Len(result) :
            /\ Len(result[i].sections) >= 1
            /\ IsCombinationScore(result[i].totalScore, MemberScoreSum(result[i]),
                                  Len(result[i].sections), CombinationBonus(result[i]))

\* a returned combination of two members without conflict whose mean is not a whole
\* number and whose score stays under the cap
C21_Witness ==
    /\ Returned
    /\ \E i \in 1..Len(result) :
           /\ Len(result[i].sections) = 2
           /\ MemberScoreSum(result[i]) % 2 = 1
           /\ ~result[i].scheduleAnalysis.hasConflicts
           /\ MemberScoreSum(result[i]) + 2 * CombinationBonus(result[i]) < 200

----------------------------------------------------------------------------
(* findOptimalCombinations on courses of one candidate each                *)

\* nine hours on Tuesday and on Thursday
SecY ==
    Section("Y", <<[days |-> Txt("TR"),
                    time |-> <<"0", "8", ":", "0", "0", "-", "1", "7", ":", "0", "0">>]>>, 2, 0)

ScheduleSections == {SecA, SecB, SecD, SecF, SecG, SecH, SecI, SecK, SecN, SecX, SecY}

MaxScheduleCourses == 2

\* courses with one candidate section each
ScheduleInputs == ListsOf({<<s>> : s \in ScheduleSections}, MaxScheduleCourses)

InitSchedules ==
    /\ preferences \in {DefaultPreferences, MTRPreferences, WFPreferences}
    /\ coursesSections \in ScheduleInputs
    /\ maxCombinations \in {<<>>, <<1>>}
    /\ sections = <<>>
    /\ op = "none"
    /\ combinations = <<>>
    /\ result = <<>>
    /\ NoFetch

NextSchedules == FindOptimalCombinations

SpecSchedules == InitSchedules /\ [][NextSchedules]_vars

----------------------------------------------------------------------------
(* The metrics of a combination                                            *)

\* the time slots of all member sections of a combination
PooledSlots(combination) ==
    Flatten([k \in 1..Len(combination.sections) |->
                combination.sections[k].dayAnalysis.timeSlots])

\* the summed duration, in minutes, of the slots of one day
DayMinutes(slots, day) ==
    SumSeq([i \in 1..Len(slots) |-> IF slots[i].day = day THEN slots[i].duration ELSE 0])

SlotDays(slots) == {slots[i].day : i \in 1..Len(slots)}

\* the fraction q, in hours, is the given number of minutes
IsHoursOf(q, minutes) == q.den > 0 /\ q.num * 60 = minutes * q.den

\* the fraction q, in hours, is the largest (smallest) daily total of the slots
IsLongestDay(q, slots) ==
    IF slots = <<>> THEN IsHoursOf(q, 0)
    ELSE \E d \in SlotDays(slots) :
             /\ IsHoursOf(q, DayMinutes(slots, d))
             /\ \A e \in SlotDays(slots) : DayMinutes(slots, e) <= DayMinutes(slots, d)

IsShortestDay(q, slots) ==
    IF slots = <<>> THEN IsHoursOf(q, 0)
    ELSE \E d \in SlotDays(slots) :
             /\ IsHoursOf(q, DayMinutes(slots, d))
             /\ \A e \in SlotDays(slots) : DayMinutes(slots, e) >= DayMinutes(slots, d)

\* the strictly positive gaps between consecutive slots of the same day
PositiveGaps(slots) ==
    LET Gaps(byDay) ==
            Flatten([d \in 1..Len(byDay) |->
                SelectSeq([i \in 1..(Len(byDay[d]) - 1) |->
                              ClockMinutes(byDay[d][i + 1].startTime)
                                  - ClockMinutes(byDay[d][i].endTime)],
                          LAMBDA gap : gap > 0)])
    IN Gaps(groupTimeSlotsByDay(slots))

\* the fraction q is the mean of the gaps, 0 when there is none
IsAverageOf(q, gaps) ==
    /\ q.den > 0
    /\ IF Len(gaps) = 0 THEN q.num = 0 ELSE q.num * Len(gaps) = SumSeq(gaps) * q.den

FracLeq(a, b) == a.num * b.den <= b.num * a.den

\* C22: for every combination, longestDay and shortestDay are the maximum and the
\* minimum over days of the summed slot durations of that day (both 0 when there is
\* no slot), averageGapTime is the sum of the strictly positive gaps between
\* consecutive same-day slots (slots of all members pooled and sorted by start time)
\* divided by the number of such gaps (0 when there is none); no metric results from
\* a division by zero, and shortestDay <= longestDay <= totalHoursPerWeek.
C22_ScheduleMetrics ==
    Returned =>
        \A i \in 1..Len(result) :
            /\ IsLongestDay(result[i].scheduleAnalysis.longestDay, PooledSlots(result[i]))
            /\ IsShortestDay(result[i].scheduleAnalysis.shortestDay, PooledSlots(result[i]))
            /\ IsAverageOf(result[i].scheduleAnalysis.averageGapTime,
                           PositiveGaps(PooledSlots(result[i])))
            /\ result[i].scheduleAnalysis.totalHoursPerWeek.den > 0
            /\ result[i].totalScore.den > 0
            /\ FracLeq(result[i].scheduleAnalysis.shortestDay,
                       result[i].scheduleAnalysis.longestDay)
            /\ FracLeq(result[i].scheduleAnalysis.longestDay,
                       result[i].scheduleAnalysis.totalHoursPerWeek)

\* SecA with SecF: Monday has the slots 09:00-09:50 and 12:30-13:20 (one gap of 160
\* minutes, 100 minutes in all); the other days have one slot of 50 minutes
C22_Witness ==
    /\ Returned
    /\ coursesSections = <<<<SecA>>, <<SecF>>>>
    /\ Len(result) = 1
    /\ result[1].scheduleAnalysis.averageGapTime = Frac(160, 1)
    /\ IsHoursOf(result[1].scheduleAnalysis.longestDay, 100)
    /\ IsHoursOf(result[1].scheduleAnalysis.shortestDay, 50)

----------------------------------------------------------------------------
(* The recommendations of a combination                                    *)

\* the recommendation of a rule when its condition holds, none otherwise
RuleOutcome(condition, recommendation) ==
    IF condition THEN <<recommendation>> ELSE <<>>

IsWaitlisted(section) == ~(section.seats > 0) /\ section.waitlist > 0

ExpectedRecommendations(combination) ==
    RuleOutcome(UsedDays(combination) \ Range(preferences.preferredDays) # {},
                "avoid non-preferred days")
    \o RuleOutcome(Cardinality(UsedDays(combination)) > 3, "fewer days per week")
    \o RuleOutcome(combination.scheduleAnalysis.averageGapTime.num
                       > 90 * combination.scheduleAnalysis.averageGapTime.den,
                   "shorter gaps")
    \o RuleOutcome(combination.scheduleAnalysis.longestDay.num
                       > 8 * combination.scheduleAnalysis.longestDay.den,
                   "longest day over 8 hours")
    \o RuleOutcome(\E k \in 1..Len(combination.sections) :
                       IsWaitlisted(combination.sections[k]),
                   "waitlisting")

\* C23: generateRecommendations emits, independently of one another and in this fixed
\* order, exactly one recommendation for each rule whose condition holds and none for
\* a rule whose condition fails: some used day is not preferred; more than 3 days are
\* used; averageGapTime > 90 minutes; longestDay > 8 hours; at least one member
\* section is waitlisted (seats not > 0 and waitlist > 0).
C23_RecommendationRules ==
    Returned =>
        \A i \in 1..Len(result) :
            result[i].recommendations = ExpectedRecommendations(result[i])

\* SecY with SecA under the default preferences: five days, two of them not
\* preferred, nine hours on Tuesday, no gap and no waitlist
C23_Witness ==
    /\ Returned
    /\ preferences = DefaultPreferences
    /\ coursesSections = <<<<SecY>>, <<SecA>>>>
    /\ Len(result) = 1
    /\ result[1].recommendations
           = <<"avoid non-preferred days", "fewer days per week", "longest day over 8 hours">>

----------------------------------------------------------------------------
(* The counts of a DayAnalysis                                             *)

DayCountsConsistent(dayAnalysis) ==
    /\ dayAnalysis.preferredDayCount >= 0
    /\ dayAnalysis.nonPreferredDayCount >= 0
    /\ dayAnalysis.preferredDayCount + dayAnalysis.nonPreferredDayCount
           = Cardinality(Range(dayAnalysis.daysOfWeek))
    /\ Len(dayAnalysis.daysOfWeek) = Cardinality(Range(dayAnalysis.daysOfWeek))
    /\ dayAnalysis.matchesPreferredDays
           <=> (dayAnalysis.nonPreferredDayCount = 0 /\ dayAnalysis.preferredDayCount > 0)

\* C24: every DayAnalysis satisfies preferredDayCount + nonPreferredDayCount =
\* |daysOfWeek|, and matchesPreferredDays is true iff nonPreferredDayCount = 0 and
\* preferredDayCount > 0, for every section and every preferred-day set.
C24_DayCountsConsistent ==
    (Analysed \/ Filtered) =>
        \A i \in 1..Len(result) : DayCountsConsistent(result[i].dayAnalysis)

\* one analysed section matches the preferred days, one meets on preferred and on
\* non-preferred days, and one meets on no day at all
C24_Witness ==
    /\ Analysed
    /\ \E i, j, k \in 1..Len(result) :
           /\ result[i].dayAnalysis.matchesPreferredDays
           /\ result[j].dayAnalysis.preferredDayCount > 0
           /\ result[j].dayAnalysis.nonPreferredDayCount > 0
           /\ result[k].dayAnalysis.daysOfWeek = <<>>
           /\ ~result[k].dayAnalysis.matchesPreferredDays

----------------------------------------------------------------------------
(* The public operations called any number of times, in any order          *)

MaxCallSections == 2

CallInputs == DistinctListsOf({SecA, SecB, SecC, SecJ, SecH}, MaxCallSections)

InitCalls ==
    /\ preferences \in {DefaultPreferences, MTRPreferences}
    /\ sections \in CallInputs
    /\ coursesSections \in {<<sections>>, [i \in 1..Len(sections) |-> <<sections[i]>>]}
    /\ maxCombinations \in {<<>>, <<1>>}
    /\ op = "none"
    /\ combinations = <<>>
    /\ result = <<>>
    /\ NoFetch

\* findOptimalCombinations(coursesSections, maxCombinations), at any time
FindOptimalCombinationsCall ==
    /\ op' = "findOptimalCombinations"
    /\ combinations' = generateScheduleCombinations(coursesSections)
    /\ result' = findOptimalCombinations(coursesSections, maxCombinations)
    /\ UNCHANGED <<preferences, sections, coursesSections, maxCombinations, fetchVars>>

NextCalls ==
    \/ AnalyzeSections
    \/ FilterPreferredDaySections
    \/ FindOptimalCombinationsCall

SpecCalls == InitCalls /\ [][NextCalls]_vars

\* a call leaves the inputs and the preferences as they were
InputsKept ==
    /\ preferences' = preferences
    /\ sections' = sections
    /\ coursesSections' = coursesSections
    /\ maxCombinations' = maxCombinations

\* the result of a call is the result of the same call made before any other call
SameAsFirstCall ==
    /\ op' = "analyzeSections" => result' = analyzeSections(sections)
    /\ op' = "filterPreferredDaySections" => result' = filterPreferredDaySections(sections)
    /\ op' = "findOptimalCombinations"
           => result' = findOptimalCombinations(coursesSections, maxCombinations)
    /\ op' = op => result' = result

----------------------------------------------------------------------------
(* safeFetch (lib/api-config): fetch with retries                          *)

MaxRetries == 3

RetryDelay == 1000

Urls == {"https://api.example/sections", "http://api.example/courses"}

\* the responses fetch can resolve with
Responses ==
    {[ok |-> TRUE, status |-> 200],
     [ok |-> FALSE, status |-> 404],
     [ok |-> FALSE, status |-> 500]}

\* what response.text().catch(() => 'Unknown error') can resolve with
ErrorTexts == {"Not Found", "Unknown error"}

\* new APIError(message, response.status, url, errorData), raised in attempt k
APIError(status, u, errorData, k) ==
    [kind |-> "APIError", status |-> status, url |-> u, responseBody |-> errorData,
     attempt |-> k]

\* the error fetch rejects with in attempt k
NetworkError(k) ==
    [kind |-> "NetworkError", status |-> 0, url |-> "", responseBody |-> "", attempt |-> k]

\* new Error('Max retries exceeded')
MaxRetriesExceeded ==
    [kind |-> "MaxRetriesExceeded", status |-> 0, url |-> "", responseBody |-> "",
     attempt |-> 0]

\* an entry of the log
Event(type, k, status, delay, error) ==
    [type |-> type, attempt |-> k, status |-> status, delay |-> delay, error |-> error]

Resolved(r) == [kind |-> "resolved", response |-> r, error |-> NoError]

Rejected(error) == [kind |-> "rejected", response |-> NoResponse, error |-> error]

\* the scheduler is not used
NoScheduler ==
    /\ preferences = DefaultPreferences
    /\ sections = <<>>
    /\ coursesSections = <<>>
    /\ maxCombinations = <<>>
    /\ op = "none"
    /\ combinations = <<>>
    /\ result = <<>>

\* safeFetch(url) is called: `attempt = 1`, before the test of the loop
InitFetch ==
    /\ NoScheduler
    /\ url \in Urls
    /\ attempt = 1
    /\ pc = "loop"
    /\ response = NoResponse
    /\ log = <<>>
    /\ settled = Pending

\* a faulty variant of the catch block: the last attempt is not told apart, so the
\* call waits after it and leaves the loop
CatchAlwaysWaits(error) ==
    /\ pc' = "waiting"
    /\ log' = log \o <<Event("failed", attempt, 0, 0, error),
                       Event("wait", attempt, 0, RetryDelay * attempt, NoError)>>
    /\ UNCHANGED settled

\* the catch block: rethrow after the last attempt, otherwise start the timer
Catch(error) ==
    IF attempt = MaxRetries
    THEN /\ pc' = "thrown"
         /\ settled' = Rejected(error)
         /\ log' = Append(log, Event("failed", attempt, 0, 0, error))
    ELSE /\ pc' = "waiting"
         /\ log' = log \o <<Event("failed", attempt, 0, 0, error),
                            Event("wait", attempt, 0, RetryDelay * attempt, NoError)>>
         /\ UNCHANGED settled

\* the test of the for loop, then fetch(url, fetchOptions); after the loop, the throw
Fetch ==
    /\ pc = "loop"
    /\ IF attempt <= MaxRetries
       THEN /\ pc' = "fetching"
            /\ log' = Append(log, Event("fetch", attempt, 0, 0, NoError))
            /\ UNCHANGED settled
       ELSE /\ pc' = "thrown"
            /\ settled' = Rejected(MaxRetriesExceeded)
            /\ UNCHANGED log
    /\ UNCHANGED <<url, attempt, response, schedulerVars>>

\* a faulty variant: an OK response is not returned, the loop goes on
FetchFulfilsNoReturn ==
    /\ pc = "fetching"
    /\ \E r \in Responses :
           /\ response' = r
           /\ IF r.ok
              THEN /\ pc' = "waiting"
                   /\ log' = Append(log, Event("ok", attempt, r.status, 0, NoError))
              ELSE /\ pc' = "reading"
                   /\ log' = Append(log, Event("notOk", attempt, r.status, 0, NoError))
    /\ UNCHANGED <<url, attempt, settled, schedulerVars>>

\* the promise of fetch is fulfilled: return response when response.ok, otherwise
\* read the body of the response
FetchFulfils ==
    /\ pc = "fetching"
    /\ \E r \in Responses :
           /\ response' = r
           /\ IF r.ok
              THEN /\ pc' = "returned"
                   /\ settled' = Resolved(r)
                   /\ log' = Append(log, Event("ok", attempt, r.status, 0, NoError))
              ELSE /\ pc' = "reading"
                   /\ log' = Append(log, Event("notOk", attempt, r.status, 0, NoError))
                   /\ UNCHANGED settled
    /\ UNCHANGED <<url, attempt, schedulerVars>>

\* the promise of fetch is rejected: the catch block gets the network error
FetchRejects ==
    /\ pc = "fetching"
    /\ Catch(NetworkError(attempt))
    /\ UNCHANGED <<url, attempt, response, schedulerVars>>

\* response.text() has settled: throw new APIError(...), caught by the catch block
TextSettles ==
    /\ pc = "reading"
    /\ \E errorData \in ErrorTexts : Catch(APIError(response.status, url, errorData, attempt))
    /\ UNCHANGED <<url, attempt, response, schedulerVars>>

\* the timer of setTimeout fires: attempt++
TimerFires ==
    /\ pc = "waiting"
    /\ attempt' = attempt + 1
    /\ pc' = "loop"
    /\ UNCHANGED <<url, response, log, settled, schedulerVars>>

NextFetch ==
    \/ Fetch
    \/ FetchFulfils
    \/ FetchRejects
    \/ TextSettles
    \/ TimerFires

SpecFetch == InitFetch /\ [][NextFetch]_vars

\* every attempt settles, every timer fires, and the code runs on when it can
FairSpecFetch ==
    /\ SpecFetch
    /\ WF_vars(Fetch)
    /\ WF_vars(FetchFulfils \/ FetchRejects)
    /\ WF_vars(TextSettles)
    /\ WF_vars(TimerFires)

\* the entries of the log of one type
EventsOf(type) == SelectSeq(log, LAMBDA e : e.type = type)

HasSettled == settled.kind # "pending"

\* attempts are numbered from 1, and an attempt after the first follows the failure
\* of the attempt before it
AttemptsInTurn ==
    /\ Len(EventsOf("fetch")) <= 3
    /\ \A k \in 1..Len(EventsOf("fetch")) : EventsOf("fetch")[k].attempt = k
    /\ \A p \in 1..Len(log) :
           (log[p].type = "fetch" /\ log[p].attempt > 1)
               => \E q \in 1..(p - 1) :
                      log[q].type = "failed" /\ log[q].attempt = log[p].attempt - 1

\* an OK response ends the call at once: it is returned and nothing follows it
OkResponseReturned ==
    /\ \A p \in 1..Len(log) :
           log[p].type = "ok"
               => /\ p = Len(log)
                  /\ pc = "returned"
                  /\ settled = Resolved(response)
                  /\ response.ok
                  /\ response.status = log[p].status
    /\ settled.kind = "resolved"
           => (Len(log) > 0 /\ log[Len(log)].type = "ok" /\ settled.response.ok)
    /\ HasSettled <=> pc \in {"returned", "thrown"}

Waits == [k \in 1..Len(EventsOf("wait")) |-> EventsOf("wait")[k].delay]

AllAttemptsFailed == Len(EventsOf("failed")) = 3

----------------------------------------------------------------------------
(* The meetings the analyzer and the conflict detector see                 *)

\* the number of (meeting, parsed day) pairs of the meetings that have a time
TimedMeetingDays(section) ==
    SumSeq([m \in 1..Len(section.schedule) |->
               IF Len(section.schedule[m].time) > 0 /\ section.schedule[m].time # TBA
               THEN Len(parseDaysString(section.schedule[m].days)) ELSE 0])

\* the days of all meetings, with or without a time
AllMeetingDays(section) ==
    UNION {Range(parseDaysString(section.schedule[m].days)) : m \in 1..Len(section.schedule)}

\* the (day, start, end) values of the time slots of an analysed section
SlotTriples(section) ==
    [k \in 1..Len(section.dayAnalysis.timeSlots) |->
        [day   |-> section.dayAnalysis.timeSlots[k].day,
         start |-> ClockMinutes(section.dayAnalysis.timeSlots[k].startTime),
         end   |-> ClockMinutes(section.dayAnalysis.timeSlots[k].endTime)]]

\* C28: for every section, the Section Analyzer records exactly one TimeSlot per
\* (meeting, parsed day) pair for meetings whose time is present and not "TBA", and
\* none for TBA meetings (whose days still count in daysOfWeek); the (day, start,
\* end) values of these slots are exactly the triples that hasTimeConflicts examines
\* for the same section.
C28_SameMeetingsSeen ==
    Analysed =>
        \A i \in 1..Len(result) :
            /\ Len(result[i].dayAnalysis.timeSlots) = TimedMeetingDays(result[i])
            /\ Range(result[i].dayAnalysis.daysOfWeek) = AllMeetingDays(result[i])
            /\ SlotTriples(result[i]) = ConflictSlots(<<Bare(result[i])>>)

\* SecC is analysed: its Tuesday meeting has the time TBA, so Tuesday is one of its
\* days and it has the two slots of Monday and Wednesday only
C28_Witness ==
    /\ Analysed
    /\ \E i \in 1..Len(result) :
           /\ Bare(result[i]) = SecC
           /\ result[i].dayAnalysis.daysOfWeek = <<"M", "W", "T">>
           /\ Len(result[i].dayAnalysis.timeSlots) = 2
           /\ Len(ConflictSlots(<<SecC>>)) = 2

----------------------------------------------------------------------------
(* Meetings with the same time text on a common day                        *)

\* sections a and b each have a meeting with the same time text, present and not
\* "TBA", on a common day
ShareMeetingTime(a, b) ==
    \E m \in 1..Len(a.schedule), n \in 1..Len(b.schedule) :
        /\ a.schedule[m].time = b.schedule[n].time
        /\ Len(a.schedule[m].time) > 0
        /\ a.schedule[m].time # TBA
        /\ Range(parseDaysString(a.schedule[m].days))
               \cap Range(parseDaysString(b.schedule[n].days)) # {}

\* C29: any two sections that each have a meeting on a common day with the same
\* non-TBA time text are reported as conflicting by hasTimeConflicts, and therefore
\* never appear together in a combination returned by findOptimalCombinations; this
\* holds for every time text, whether it is a same-day range, a range that crosses
\* midnight, or text that does not parse as a range.
C29_SameTimeTextConflicts ==
    /\ Checked =>
           ((\E i, j \in 1..Len(sections) : i < j /\ ShareMeetingTime(sections[i], sections[j]))
                => result = TRUE)
    /\ Returned =>
           \A c \in 1..Len(result) :
               \A i, j \in 1..Len(result[c].sections) :
                   i < j => ~ShareMeetingTime(result[c].sections[i], result[c].sections[j])

----------------------------------------------------------------------------
(* The days of the sections the filter returns                             *)

\* C30: every section returned by filterPreferredDaySections meets on at least one
\* preferred day (preferredDayCount >= 1) and on at most one non-preferred day, for
\* every input list and every preferred-day set.
C30_FilteredMeetOnPreferredDay ==
    Filtered =>
        \A i \in 1..Len(result) :
            /\ result[i].dayAnalysis.preferredDayCount >= 1
            /\ Cardinality(PreferredDaysOf(result[i])) >= 1
            /\ result[i].dayAnalysis.nonPreferredDayCount <= 1
            /\ Cardinality(NonPreferredDaysOf(result[i])) <= 1

====
